---- MODULE Spec2Model ----
(***************************************************************************)
(* A model of matrix-blog's BlogService (src/src/BlogService.ts) running   *)
(* against a Matrix homeserver reached through MatrixClient.               *)
(*                                                                         *)
(* JavaScript strings are sequences of one-character tokens, so that       *)
(* template strings are concatenations; the value `undefined` is the       *)
(* one-element sequence Undefined, which no string equals.                 *)
(*                                                                         *)
(* Every client call is asynchronous: it is issued (st = "pending") and    *)
(* later completes, either with its effect on the homeserver (st = "ok")   *)
(* or with a MatrixError carrying an HTTP status (st = "err").  The code   *)
(* that follows an await runs in the step that completes the awaited call. *)
(***************************************************************************)
EXTENDS Integers, Sequences, FiniteSets, TLC

\* ---------------------------------------------------------------- bounds
MaxEvents == 12      \* events the homeserver will accept
MaxFaults == 1       \* calls of one method that fail for a reason outside the model
MaxNameLen == 2      \* characters of a prefix and of a name
MaxRooms == 2        \* rooms of a space summary

\* ------------------------------------------------------------- constants
TYPE_KEY == "org.matrix.msc1772.type"
SPACE_VALUE == "org.matrix.msc1772.space"
CHILD_EVENT == "org.matrix.msc1772.space.child"
PARENT_EVENT == "org.matrix.msc1772.space.parent"
POST_CONTENT_EVENT == "co.hirsz.blog.post_content"

roomPrefix == <<"b", "l", "o", "g", ".">>
serverName == <<"s">>

Undefined == <<"undefined">>

\* ---------------------------------------------------------------- inputs
PostIds == {"!p1"}
BlogId == "!b"
Me == "@me"
OtherUsers == {"@u1"}
Users == {Me} \cup OtherUsers
FaultStatuses == {403, 429}

VARIABLES
  stateEvents,   \* homeserver: the current state records of all rooms
  aliases,       \* homeserver: the alias directory, a set of <<alias, room>>
  timeline,      \* homeserver: the message events of all rooms
  op,            \* the BlogService method being run and its arguments
  calls,         \* the client calls of that method: none/pending/ok/err
  kicks,         \* deletePost: the kickUser call of each user
  lv,            \* the local variables of that method
  result,        \* the method's promise: none, ok, or the error it rejects with
  faults         \* the faults injected into the calls of that method

vars == <<stateEvents, aliases, timeline, op, calls, kicks, lv, result, faults>>
remote == <<stateEvents, aliases, timeline>>

\* ------------------------------------------------------------ JavaScript
Truthy(str) == str # Undefined /\ str # <<>>
NotNull(str) == str # Undefined

\* ------------------------------------------------------- naming helpers
\* The helpers read this.roomPrefix and the client's server name: the operators
\* ending in For take them as arguments, the others use the configured ones.
createLocalRoomAliasFor(prefix, name) == prefix \o name

createLocalRoomAlias(name) == createLocalRoomAliasFor(roomPrefix, name)

createRoomAliasFor(prefix, server, slug) ==
  <<"#">> \o createLocalRoomAliasFor(prefix, slug) \o <<":">> \o server

createRoomAlias(slug) == createRoomAliasFor(roomPrefix, serverName, slug)

\* The characters of the class [.*+?^${}()|[\]\\].
RegexpSpecials ==
  {".", "*", "+", "?", "^", "$", "{", "}", "(", ")", "|", "[", "]", "\\"}

\* Mutant: nothing is escaped.
escapeRegexp_nothing(string) == string

\* string.replace(/[.*+?^${}()|[\]\\]/g, '\\$&'): a backslash goes before every
\* special character.
RECURSIVE escapeRegexp(_)
escapeRegexp(string) ==
  IF string = <<>> THEN <<>>
  ELSE (IF Head(string) \in RegexpSpecials THEN <<"\\", Head(string)>>
        ELSE <<Head(string)>>) \o escapeRegexp(Tail(string))

\* new RegExp(source), for a source of escaped characters, dots and plain
\* characters: an escaped character and a plain one match themselves, a dot
\* matches any character.
RECURSIVE ParseRegexp(_)
ParseRegexp(source) ==
  IF source = <<>> THEN <<>>
  ELSE IF Head(source) = "\\" /\ Len(source) >= 2
    THEN <<[kind |-> "literal", char |-> source[2]]>>
           \o ParseRegexp(SubSeq(source, 3, Len(source)))
  ELSE IF Head(source) = "."
    THEN <<[kind |-> "any", char |-> "."]>> \o ParseRegexp(Tail(source))
  ELSE <<[kind |-> "literal", char |-> Head(source)]>> \o ParseRegexp(Tail(source))

\* The pattern, anchored at the start by ^, matches the start of `string`.
Matches(pattern, string) ==
  /\ Len(string) >= Len(pattern)
  /\ \A i \in 1..Len(pattern) :
       pattern[i].kind = "any" \/ pattern[i].char = string[i]

\* The longest run of characters other than ":" at the start of `string`.
RECURSIVE UpToColon(_)
UpToColon(string) ==
  IF string = <<>> \/ Head(string) = ":" THEN <<>>
  ELSE <<Head(string)>> \o UpToColon(Tail(string))

\* alias.match(new RegExp(`^#${escapeRegexp(this.roomPrefix)}([^:]+)`))
getSlugFromRoomAliasFor(prefix, alias) ==
  LET rx == ParseRegexp(<<"#">> \o escapeRegexp(prefix))
      group == UpToColon(SubSeq(alias, Len(rx) + 1, Len(alias)))
  IN  IF Matches(rx, alias) /\ group # <<>> THEN group ELSE Undefined

getSlugFromRoomAlias(alias) == getSlugFromRoomAliasFor(roomPrefix, alias)

\* ------------------------------------------------------- the homeserver
StateOf(S, room) == {e \in S : e.room = room}

HasState(S, room, type, key) ==
  \E e \in S : e.room = room /\ e.type = type /\ e.state_key = key

GetState(S, room, type, key) ==
  CHOOSE e \in S : e.room = room /\ e.type = type /\ e.state_key = key

\* The homeserver names an event by its room, type, state key and the number of
\* events written there so far, and stamps it with the time of that write.
NoEvent == <<>>
VersionOf(S, room, type, key) ==
  IF HasState(S, room, type, key) THEN GetState(S, room, type, key).event_id[4] ELSE 0
NewStateId(S, room, type, key) == <<room, type, key, VersionOf(S, room, type, key) + 1>>
NewMessageId(T, room) ==
  <<room, "m.room.message", "", Cardinality({m \in T : m.room = room}) + 1>>
TimeOf(id) == <<"ts", id>>

\* A state record is keyed by (room, type, state_key): the latest write wins.
PutState(S, room, type, key, content) ==
  {e \in S : ~(e.room = room /\ e.type = type /\ e.state_key = key)}
    \cup {[room |-> room, type |-> type, state_key |-> key, content |-> content,
           event_id |-> NewStateId(S, room, type, key),
           origin_server_ts |-> TimeOf(NewStateId(S, room, type, key)),
           redacted |-> FALSE]}

\* A redaction clears the content of the event and keeps its identifier.
Redact(S, room, id) ==
  {IF e.room = room /\ e.event_id = id
     THEN [e EXCEPT !.content = [cleared |-> TRUE], !.redacted = TRUE]
     ELSE e : e \in S}

RoomExists(room) == HasState(stateEvents, room, "m.room.create", "")
AliasBound(alias) == \E a \in aliases : a[1] = alias

RECURSIVE SumVersions(_)
SumVersions(S) ==
  IF S = {} THEN 0
  ELSE LET e == CHOOSE x \in S : TRUE IN e.event_id[4] + SumVersions(S \ {e})

\* The events the homeserver has accepted so far; it accepts MaxEvents in all.
EventCount == SumVersions(stateEvents) + Cardinality(timeline)
CanAssign(n) == EventCount + n <= MaxEvents


Joined(room, user) ==
  /\ HasState(stateEvents, room, "m.room.member", user)
  /\ GetState(stateEvents, room, "m.room.member", user).content = [membership |-> "join"]

\* sendStateEvent, sendMessageEvent, kick and leave need the sender in the room.
CanSend(room) == RoomExists(room) /\ Joined(room, Me) /\ CanAssign(1)

\* The redaction event itself is never read back: it takes no modelled event id.
CanRedact(room) == RoomExists(room) /\ Joined(room, Me)

TextMessage(text, html) ==
  [body |-> text, formatted_body |-> html, relates_to |-> NoEvent,
   new_body |-> Undefined, new_formatted_body |-> Undefined]

MessageEvent(room, id, content) ==
  [room |-> room, event_id |-> id, origin_server_ts |-> TimeOf(id), content |-> content]

\* -------------------------------------------------------- client calls
NoCall == [st |-> "none", err |-> 0]
Pending == [st |-> "pending", err |-> 0]
Ok == [st |-> "ok", err |-> 0]
Failed(status) == [st |-> "err", err |-> status]

AddPostCalls == {"createRoom", "sendMessage", "sendChild", "sendParent", "sendPointer"}
DeletePostCalls == {"getStateEvents", "getCurrentUser", "redactParent", "getBlogState",
                    "redactChild", "removeRoomAlias", "leaveRoom"}
EditPostCalls == {"setTitle", "setSummary", "getCanonicalAlias", "addRoomAlias",
                  "sendCanonicalAlias", "removeOldAlias", "getPointer", "sendEdit"}
GetPostCalls == {"getName", "getTopic", "getAlias", "getPostState", "getEvent"}
GetBlogCalls == {"getRoomState", "getSpaceSummary"}
CallNames ==
  AddPostCalls \cup DeletePostCalls \cup EditPostCalls \cup GetPostCalls \cup GetBlogCalls

NoResult == [kind |-> "none", status |-> 0, from |-> "", message |-> ""]
Resolved == [kind |-> "ok", status |-> 0, from |-> "", message |-> ""]
MatrixError(status, call) ==
  [kind |-> "matrix", status |-> status, from |-> call, message |-> ""]
BlogServiceError(message) ==
  [kind |-> "domain", status |-> 0, from |-> "", message |-> message]

\* A call fails with `status`: a fault (a permission, rate-limit or network
\* error) is one of the MaxFaults the method meets; the other statuses are the
\* homeserver's answer to the call in its present state.
Fails(status) ==
  /\ status \in FaultStatuses => faults < MaxFaults
  /\ faults' = IF status \in FaultStatuses THEN faults + 1 ELSE faults

\* A promise settles once: a later rejection of a joined call changes nothing.
Reject(error) == IF result.kind = "none" THEN error ELSE result

NoTime == <<>>
NoContent ==
  [text |-> Undefined, html |-> Undefined, created_ms |-> NoTime,
   published_ms |-> NoTime, edited_ms |-> NoTime]

NoBlog == [id |-> "", title |-> Undefined, description |-> Undefined]

Idle == [name |-> "idle"]
NoLocals ==
  [postId |-> "", messageEventId |-> NoEvent, pointerArg |-> NoEvent,
   stateEvents |-> {}, parentEvent |-> NoEvent, blogId |-> "", currentUserId |-> "",
   aliasArg |-> Undefined, childEvent |-> NoEvent,
   tasks |-> [t \in {"title", "summary", "slug", "content"} |-> "none"],
   newAlias |-> Undefined, oldAlias |-> Undefined, replaces |-> NoEvent,
   title |-> Undefined, summary |-> Undefined, slug |-> Undefined,
   contentEvent |-> NoEvent, content |-> NoContent,
   blog |-> NoBlog, spaceSummary |-> <<>>, posts |-> <<>>, contents |-> <<>>,
   kickArgs |-> {}, before |-> <<>>, edits |-> <<>>]
Reasons == {"Deleting blog post", "spam"}

Titles == {<<"T">>}
Summaries == {Undefined, <<"S">>}
NewSlugs == {Undefined, <<"x">>}
Texts == {<<"a">>}
Htmls == {<<"h">>}
NewPosts ==
  [title : Titles, summary : Summaries, slug : NewSlugs, text : Texts, html : Htmls]
EditSlugs == {Undefined, <<>>, <<"x">>, <<"y">>}
PartialPosts ==
  [title : Titles \cup {Undefined}, summary : {Undefined, <<"S">>}, slug : EditSlugs,
   text : {Undefined, <<"c">>}, html : {Undefined, <<"k">>}]

\* The blog is a space room made by an external process before the service runs.
Init ==
  /\ stateEvents =
       PutState(PutState({}, BlogId, "m.room.create", "", TYPE_KEY :> SPACE_VALUE),
                BlogId, "m.room.member", Me, [membership |-> "join"])
  /\ aliases = {}
  /\ timeline = {}
  /\ op = Idle
  /\ calls = [c \in CallNames |-> NoCall]
  /\ kicks = [u \in Users |-> NoCall]
  /\ lv = NoLocals
  /\ result = NoResult
  /\ faults = 0

\* ------------------------------------------------------------- addPost
\* createRoom on the homeserver: the creation record, the creator's membership,
\* the name, the topic and, when an alias is asked for, its binding and the
\* canonical-alias record.
CreatedRoomState(room, req) ==
  LET s1 == PutState(stateEvents, room, "m.room.create", "", [creator |-> Me])
      s2 == PutState(s1, room, "m.room.member", Me, [membership |-> "join"])
      s3 == PutState(s2, room, "m.room.name", "", [name |-> req.name])
      s4 == IF NotNull(req.topic)
              THEN PutState(s3, room, "m.room.topic", "", [topic |-> req.topic])
              ELSE s3
  IN  IF Truthy(req.room_alias_name)
        THEN PutState(s4, room, "m.room.canonical_alias", "",
                      [alias |-> <<"#">> \o req.room_alias_name \o <<":">> \o serverName])
        ELSE s4

CreateRoomRequest(post) ==
  [name |-> post.title,
   topic |-> post.summary,
   room_alias_name |-> IF Truthy(post.slug) THEN createLocalRoomAlias(post.slug)
                       ELSE post.slug]

addPost(blogId, post) ==
  /\ op = Idle
  /\ op' = [name |-> "addPost", blogId |-> blogId, post |-> post]
  /\ calls' = [c \in CallNames |-> IF c = "createRoom" THEN Pending ELSE NoCall]
  /\ kicks' = [u \in Users |-> NoCall]
  /\ lv' = NoLocals
  /\ result' = NoResult
  /\ UNCHANGED remote
  /\ UNCHANGED faults

\* createRoom resolves with the new room id; the message send and the two
\* linkage writes are then issued together, before anything is awaited.
addPost_createRoom_ok ==
  /\ op.name = "addPost"
  /\ calls["createRoom"].st = "pending"
  /\ CanAssign(5)
  /\ \E postId \in PostIds :
       LET req == CreateRoomRequest(op.post)
           alias == <<"#">> \o req.room_alias_name \o <<":">> \o serverName
       IN  /\ ~RoomExists(postId)
           /\ Truthy(req.room_alias_name) => ~AliasBound(alias)
           /\ stateEvents' = CreatedRoomState(postId, req)
           /\ aliases' = IF Truthy(req.room_alias_name)
                           THEN aliases \cup {<<alias, postId>>} ELSE aliases
           /\ lv' = [lv EXCEPT !.postId = postId]
  /\ calls' = [calls EXCEPT !["createRoom"] = Ok, !["sendMessage"] = Pending,
                            !["sendChild"] = Pending, !["sendParent"] = Pending]
  /\ UNCHANGED <<timeline, op, kicks, result>>
  /\ UNCHANGED faults

addPost_createRoom_fail ==
  /\ op.name = "addPost"
  /\ calls["createRoom"].st = "pending"
  /\ \E status \in FaultStatuses :
       /\ Fails(status)
       /\ calls' = [calls EXCEPT !["createRoom"] = Failed(status)]
       /\ result' = Reject(MatrixError(status, "createRoom"))
  /\ UNCHANGED <<remote, op, kicks, lv>>

\* Mutant: the join awaits the message send only.
addPost_joined_messageOnly(cs) == cs["sendMessage"].st = "ok"

\* Mutant: the join waits for the three calls to settle, fulfilled or not.
addPost_joined_allSettled(cs) ==
  \A c \in {"sendMessage", "sendChild", "sendParent"} : cs[c].st \in {"ok", "err"}

\* Mutant: the child-link write is left out of the join.
addPost_joined_withoutChild(cs) ==
  /\ cs["sendMessage"].st = "ok"
  /\ cs["sendParent"].st = "ok"

\* Promise.all([message, child, parent]) is fulfilled when the three calls are.
addPost_joined(cs) ==
  /\ cs["sendMessage"].st = "ok"
  /\ cs["sendChild"].st = "ok"
  /\ cs["sendParent"].st = "ok"

\* The code after the join: the content-pointer write, carrying messageEventId.
addPost_afterJoin(cs, locals) ==
  IF addPost_joined(cs) /\ cs["sendPointer"].st = "none"
    THEN /\ calls' = [cs EXCEPT !["sendPointer"] = Pending]
         /\ lv' = [locals EXCEPT !.pointerArg = locals.messageEventId]
    ELSE /\ calls' = cs
         /\ lv' = locals

addPost_message_ok ==
  /\ op.name = "addPost"
  /\ calls["sendMessage"].st = "pending"
  /\ CanSend(lv.postId)
  /\ timeline' = timeline \cup
       {MessageEvent(lv.postId, NewMessageId(timeline, lv.postId), TextMessage(op.post.text, op.post.html))}
  /\ addPost_afterJoin([calls EXCEPT !["sendMessage"] = Ok],
                       [lv EXCEPT !.messageEventId = NewMessageId(timeline, lv.postId)])
  /\ UNCHANGED <<stateEvents, aliases, op, kicks, result>>
  /\ UNCHANGED faults

addPost_child_ok ==
  /\ op.name = "addPost"
  /\ calls["sendChild"].st = "pending"
  /\ CanSend(op.blogId)
  /\ stateEvents' = PutState(stateEvents, op.blogId, CHILD_EVENT, lv.postId,
                             [via |-> <<serverName>>])
  /\ addPost_afterJoin([calls EXCEPT !["sendChild"] = Ok], lv)
  /\ UNCHANGED <<aliases, timeline, op, kicks, result>>
  /\ UNCHANGED faults

addPost_parent_ok ==
  /\ op.name = "addPost"
  /\ calls["sendParent"].st = "pending"
  /\ CanSend(lv.postId)
  /\ stateEvents' = PutState(stateEvents, lv.postId, PARENT_EVENT, op.blogId,
                             [via |-> <<serverName>>, canonical |-> TRUE])
  /\ addPost_afterJoin([calls EXCEPT !["sendParent"] = Ok], lv)
  /\ UNCHANGED <<aliases, timeline, op, kicks, result>>
  /\ UNCHANGED faults

\* Any of the three joined calls fails: Promise.all rejects with the first error.
addPost_joined_fail ==
  /\ op.name = "addPost"
  /\ \E c \in {"sendMessage", "sendChild", "sendParent"}, status \in FaultStatuses :
       /\ Fails(status)
       /\ calls[c].st = "pending"
       /\ calls' = [calls EXCEPT ![c] = Failed(status)]
       /\ result' = Reject(MatrixError(status, c))
  /\ UNCHANGED <<remote, op, kicks, lv>>

addPost_pointer_ok ==
  /\ op.name = "addPost"
  /\ calls["sendPointer"].st = "pending"
  /\ CanSend(lv.postId)
  /\ stateEvents' = PutState(stateEvents, lv.postId, POST_CONTENT_EVENT, "",
                             [event_id |-> lv.pointerArg])
  /\ calls' = [calls EXCEPT !["sendPointer"] = Ok]
  /\ result' = Resolved
  /\ UNCHANGED <<aliases, timeline, op, kicks, lv>>
  /\ UNCHANGED faults

addPost_pointer_fail ==
  /\ op.name = "addPost"
  /\ calls["sendPointer"].st = "pending"
  /\ \E status \in FaultStatuses :
       /\ Fails(status)
       /\ calls' = [calls EXCEPT !["sendPointer"] = Failed(status)]
       /\ result' = Reject(MatrixError(status, "sendPointer"))
  /\ UNCHANGED <<remote, op, kicks, lv>>

\* ---------------------------------------------------------- deletePost
deletePost(postId, reason) ==
  /\ op = Idle
  /\ op' = [name |-> "deletePost", postId |-> postId, reason |-> reason]
  /\ calls' = [c \in CallNames |-> IF c = "getStateEvents" THEN Pending ELSE NoCall]
  /\ kicks' = [u \in Users |-> NoCall]
  /\ lv' = NoLocals
  /\ result' = NoResult
  /\ UNCHANGED remote
  /\ UNCHANGED faults

\* Mutant: the lookup tests the wrong record type.
deletePost_findParent_wrongType(fetched) == {e \in fetched : e.type = "m.room.create"}

\* stateEvents.find((e) => e.type === PARENT_EVENT)
deletePost_findParent(fetched) == {e \in fetched : e.type = PARENT_EVENT}

\* The post's state arrives.  Without a parent record the method throws; with
\* one it asks for the current user.
deletePost_state_ok ==
  /\ op.name = "deletePost"
  /\ calls["getStateEvents"].st = "pending"
  /\ RoomExists(op.postId)
  /\ LET fetched == StateOf(stateEvents, op.postId)
         parents == deletePost_findParent(fetched)
     IN  IF parents = {}
           THEN /\ calls' = [calls EXCEPT !["getStateEvents"] = Ok]
                /\ lv' = [lv EXCEPT !.stateEvents = fetched]
                /\ result' = Reject(BlogServiceError("No parent linkage"))
           ELSE \E parentEvent \in parents :
                  /\ calls' = [calls EXCEPT !["getStateEvents"] = Ok,
                                            !["getCurrentUser"] = Pending]
                  /\ lv' = [lv EXCEPT !.stateEvents = fetched,
                                      !.parentEvent = parentEvent.event_id,
                                      !.blogId = parentEvent.state_key]
                  /\ result' = result
  /\ UNCHANGED <<remote, op, kicks>>
  /\ UNCHANGED faults

\* aliasEvent?.content.alias, undefined when there is no record or no alias in it.
AliasOf(content) == IF "alias" \in DOMAIN content THEN content.alias ELSE Undefined

CanonicalAliasIn(fetched) ==
  IF \E e \in fetched : e.type = "m.room.canonical_alias"
    THEN AliasOf((CHOOSE e \in fetched : e.type = "m.room.canonical_alias").content)
    ELSE Undefined

\* Mutant: the acting agent's own membership is not filtered out.
deletePost_memberships_all(fetched, currentUserId) ==
  {e.state_key : e \in {m \in fetched : m.type = "m.room.member"}}

\* stateEvents.filter((e) => e.type === 'm.room.member' && e.state_key !== currentUserId)
deletePost_memberships(fetched, currentUserId) ==
  {e.state_key : e \in {m \in fetched : m.type = "m.room.member"
                                        /\ m.state_key # currentUserId}}

\* The current user arrives: the parent redaction, the blog's state fetch, the
\* alias unbind and the evictions are all issued before anything is awaited.
deletePost_user_ok ==
  /\ op.name = "deletePost"
  /\ calls["getCurrentUser"].st = "pending"
  /\ LET alias == CanonicalAliasIn(lv.stateEvents)
     IN  /\ calls' = [calls EXCEPT
                        !["getCurrentUser"] = Ok,
                        !["redactParent"] = Pending,
                        !["getBlogState"] = Pending,
                        !["removeRoomAlias"] = IF NotNull(alias) THEN Pending ELSE NoCall]
         /\ lv' = [lv EXCEPT
                     !.currentUserId = Me,
                     !.aliasArg = alias,
                     !.kickArgs = {[roomId |-> op.postId, userId |-> u, reason |-> op.reason] :
                                     u \in deletePost_memberships(lv.stateEvents, Me)}]
         /\ kicks' = [u \in Users |->
                        IF u \in deletePost_memberships(lv.stateEvents, Me)
                          THEN Pending ELSE NoCall]
  /\ UNCHANGED <<remote, op, result>>
  /\ UNCHANGED faults

\* A failure before the parallel part: the method rejects with it.
deletePost_first_fail ==
  /\ op.name = "deletePost"
  /\ \E c \in {"getStateEvents", "getCurrentUser"}, status \in FaultStatuses \cup {404} :
       /\ Fails(status)
       /\ calls[c].st = "pending"
       /\ status = 404 => c = "getStateEvents" /\ ~RoomExists(op.postId)
       /\ calls' = [calls EXCEPT ![c] = Failed(status)]
       /\ result' = Reject(MatrixError(status, c))
  /\ UNCHANGED <<remote, op, kicks, lv>>

\* The second promise: the blog's state fetch and, when it finds the child
\* record, its redaction.
deletePost_childTaskDone(cs) ==
  /\ cs["getBlogState"].st = "ok"
  /\ cs["redactChild"].st \in {"none", "ok"}

\* Mutant: the evictions are not pushed to the joined promises.
deletePost_joined_withoutKicks(cs, ks) ==
  /\ cs["redactParent"].st = "ok"
  /\ deletePost_childTaskDone(cs)
  /\ cs["removeRoomAlias"].st \in {"none", "ok"}

\* Promise.all(eventPromises) is fulfilled when every pushed promise is.
deletePost_joined(cs, ks) ==
  /\ cs["redactParent"].st = "ok"
  /\ deletePost_childTaskDone(cs)
  /\ cs["removeRoomAlias"].st \in {"none", "ok"}
  /\ \A u \in Users : ks[u].st \in {"none", "ok"}

\* The code after the join: leave the room.
deletePost_afterJoin(cs, ks) ==
  /\ calls' = IF deletePost_joined(cs, ks) /\ cs["leaveRoom"].st = "none"
                THEN [cs EXCEPT !["leaveRoom"] = Pending] ELSE cs
  /\ kicks' = ks

deletePost_redactParent_ok ==
  /\ op.name = "deletePost"
  /\ calls["redactParent"].st = "pending"
  /\ CanRedact(op.postId)
  /\ stateEvents' = Redact(stateEvents, op.postId, lv.parentEvent)
  /\ deletePost_afterJoin([calls EXCEPT !["redactParent"] = Ok], kicks)
  /\ UNCHANGED <<aliases, timeline, op, lv, result>>
  /\ UNCHANGED faults

\* Mutant: the child record is looked up under the blog's id.
deletePost_findChild_blogKey(fetched, postId) ==
  {e \in fetched : e.type = CHILD_EVENT /\ e.state_key = BlogId}

\* parentStateEvents.find((e) => e.type === CHILD_EVENT && e.state_key === postId)
deletePost_findChild(fetched, postId) ==
  {e \in fetched : e.type = CHILD_EVENT /\ e.state_key = postId}

deletePost_blogState_ok ==
  /\ op.name = "deletePost"
  /\ calls["getBlogState"].st = "pending"
  /\ RoomExists(lv.blogId)
  /\ LET children == deletePost_findChild(StateOf(stateEvents, lv.blogId), op.postId)
     IN  IF children = {}
           THEN /\ deletePost_afterJoin([calls EXCEPT !["getBlogState"] = Ok], kicks)
                /\ lv' = lv
           ELSE \E childEvent \in children :
                  /\ calls' = [calls EXCEPT !["getBlogState"] = Ok,
                                            !["redactChild"] = Pending]
                  /\ kicks' = kicks
                  /\ lv' = [lv EXCEPT !.childEvent = childEvent.event_id]
  /\ UNCHANGED <<remote, op, result>>
  /\ UNCHANGED faults

deletePost_redactChild_ok ==
  /\ op.name = "deletePost"
  /\ calls["redactChild"].st = "pending"
  /\ CanRedact(lv.blogId)
  /\ stateEvents' = Redact(stateEvents, lv.blogId, lv.childEvent)
  /\ deletePost_afterJoin([calls EXCEPT !["redactChild"] = Ok], kicks)
  /\ UNCHANGED <<aliases, timeline, op, lv, result>>
  /\ UNCHANGED faults

deletePost_removeRoomAlias_ok ==
  /\ op.name = "deletePost"
  /\ calls["removeRoomAlias"].st = "pending"
  /\ AliasBound(lv.aliasArg)
  /\ aliases' = {a \in aliases : a[1] # lv.aliasArg}
  /\ deletePost_afterJoin([calls EXCEPT !["removeRoomAlias"] = Ok], kicks)
  /\ UNCHANGED <<stateEvents, timeline, op, lv, result>>
  /\ UNCHANGED faults

deletePost_kickUser_ok(user) ==
  /\ op.name = "deletePost"
  /\ kicks[user].st = "pending"
  /\ CanSend(op.postId)
  /\ Joined(op.postId, user)
  /\ stateEvents' = PutState(stateEvents, op.postId, "m.room.member", user,
                             [membership |-> "leave"])
  /\ deletePost_afterJoin(calls, [kicks EXCEPT ![user] = Ok])
  /\ UNCHANGED <<aliases, timeline, op, lv, result>>
  /\ UNCHANGED faults

\* Any of the joined calls fails: Promise.all rejects with the first error.
deletePost_joined_fail ==
  /\ op.name = "deletePost"
  /\ \E status \in FaultStatuses :
       \/ \E c \in {"redactParent", "getBlogState", "redactChild", "removeRoomAlias"} :
            /\ Fails(status)
            /\ calls[c].st = "pending"
            /\ calls' = [calls EXCEPT ![c] = Failed(status)]
            /\ kicks' = kicks
            /\ result' = Reject(MatrixError(status, c))
       \/ \E u \in Users :
            /\ Fails(status)
            /\ kicks[u].st = "pending"
            /\ kicks' = [kicks EXCEPT ![u] = Failed(status)]
            /\ calls' = calls
            /\ result' = Reject(MatrixError(status, "kickUser"))
  /\ UNCHANGED <<remote, op, lv>>

deletePost_leaveRoom_ok ==
  /\ op.name = "deletePost"
  /\ calls["leaveRoom"].st = "pending"
  /\ CanSend(op.postId)
  /\ stateEvents' = PutState(stateEvents, op.postId, "m.room.member", Me,
                             [membership |-> "leave"])
  /\ calls' = [calls EXCEPT !["leaveRoom"] = Ok]
  /\ result' = Resolved
  /\ UNCHANGED <<aliases, timeline, op, kicks, lv>>
  /\ UNCHANGED faults

deletePost_leaveRoom_fail ==
  /\ op.name = "deletePost"
  /\ calls["leaveRoom"].st = "pending"
  /\ \E status \in FaultStatuses :
       /\ Fails(status)
       /\ calls' = [calls EXCEPT !["leaveRoom"] = Failed(status)]
       /\ result' = Reject(MatrixError(status, "leaveRoom"))
  /\ UNCHANGED <<remote, op, kicks, lv>>

\* ------------------------------------------------------------ editPost
Tasks == {"title", "summary", "slug", "content"}

\* Mutant: the content update is pushed as soon as the text is present.
editPost_pushed_textOnly(post) ==
  [t \in Tasks |->
     CASE t = "title" -> NotNull(post.title)
       [] t = "summary" -> NotNull(post.summary)
       [] t = "slug" -> NotNull(post.slug)
       [] t = "content" -> NotNull(post.text)]

\* The promises editPost pushes: one for each field present in the input, the
\* content one only when both text and html are.
editPost_pushed(post) ==
  [t \in Tasks |->
     CASE t = "title" -> NotNull(post.title)
       [] t = "summary" -> NotNull(post.summary)
       [] t = "slug" -> NotNull(post.slug)
       [] t = "content" -> NotNull(post.text) /\ NotNull(post.html)]

\* Promise.all(promises): fulfilled when every pushed task is, rejected with the
\* first error otherwise.
PromiseAll(tasks, error) ==
  IF result.kind # "none" THEN result
  ELSE IF \E t \in Tasks : tasks[t] = "err" THEN error
  ELSE IF \A t \in Tasks : tasks[t] \in {"none", "ok"} THEN Resolved
  ELSE result

\* const newAlias = slug && this.createRoomAlias(slug)
setPostSlug_newAlias(slug) == IF Truthy(slug) THEN createRoomAlias(slug) ELSE slug

editPost(postId, post) ==
  /\ op = Idle
  /\ op' = [name |-> "editPost", postId |-> postId, post |-> post]
  /\ LET pushed == editPost_pushed(post)
         tasks == [t \in Tasks |-> IF pushed[t] THEN "running" ELSE "none"]
     IN  /\ calls' = [c \in CallNames |->
                        CASE c = "setTitle" /\ pushed["title"] -> Pending
                          [] c = "setSummary" /\ pushed["summary"] -> Pending
                          [] c = "getCanonicalAlias" /\ pushed["slug"] -> Pending
                          [] c = "getPointer" /\ pushed["content"] -> Pending
                          [] OTHER -> NoCall]
         /\ lv' = [NoLocals EXCEPT
                     !.tasks = tasks,
                     !.newAlias = IF pushed["slug"] THEN setPostSlug_newAlias(post.slug)
                                  ELSE Undefined,
                     !.before = remote]
         /\ result' = IF \A t \in Tasks : ~pushed[t] THEN Resolved ELSE NoResult
  /\ kicks' = [u \in Users |-> NoCall]
  /\ UNCHANGED remote
  /\ UNCHANGED faults

\* A task of editPost or getPost ends: its promise settles and so may the join.
TaskEnds(task, outcome, error, locals) ==
  LET tasks == [locals.tasks EXCEPT ![task] = outcome]
  IN  /\ lv' = [locals EXCEPT !.tasks = tasks]
      /\ result' = PromiseAll(tasks, error)

setPostTitle_ok ==
  /\ op.name = "editPost"
  /\ calls["setTitle"].st = "pending"
  /\ CanSend(op.postId)
  /\ stateEvents' = PutState(stateEvents, op.postId, "m.room.name", "",
                             [name |-> op.post.title])
  /\ calls' = [calls EXCEPT !["setTitle"] = Ok]
  /\ TaskEnds("title", "ok", NoResult, lv)
  /\ UNCHANGED <<aliases, timeline, op, kicks>>
  /\ UNCHANGED faults

\* Mutant: the summary is written to the record of the title.
setPostSummary_ok_nameRecord ==
  /\ op.name = "editPost"
  /\ calls["setSummary"].st = "pending"
  /\ CanSend(op.postId)
  /\ stateEvents' = PutState(stateEvents, op.postId, "m.room.name", "",
                             [name |-> op.post.summary])
  /\ calls' = [calls EXCEPT !["setSummary"] = Ok]
  /\ TaskEnds("summary", "ok", NoResult, lv)
  /\ UNCHANGED <<aliases, timeline, op, kicks>>
  /\ UNCHANGED faults

setPostSummary_ok ==
  /\ op.name = "editPost"
  /\ calls["setSummary"].st = "pending"
  /\ CanSend(op.postId)
  /\ stateEvents' = PutState(stateEvents, op.postId, "m.room.topic", "",
                             [topic |-> op.post.summary])
  /\ calls' = [calls EXCEPT !["setSummary"] = Ok]
  /\ TaskEnds("summary", "ok", NoResult, lv)
  /\ UNCHANGED <<aliases, timeline, op, kicks>>
  /\ UNCHANGED faults

\* A write of setPostTitle or setPostSummary fails: nothing catches it.
editPost_write_fail ==
  /\ op.name = "editPost"
  /\ \E status \in FaultStatuses :
       \/ /\ Fails(status)
          /\ calls["setTitle"].st = "pending"
          /\ calls' = [calls EXCEPT !["setTitle"] = Failed(status)]
          /\ TaskEnds("title", "err", MatrixError(status, "setTitle"), lv)
       \/ /\ Fails(status)
          /\ calls["setSummary"].st = "pending"
          /\ calls' = [calls EXCEPT !["setSummary"] = Failed(status)]
          /\ TaskEnds("summary", "err", MatrixError(status, "setSummary"), lv)
  /\ UNCHANGED <<remote, op, kicks>>

\* The catch of setPostSlug around the read of the old alias: it has no
\* condition, every error ends there.
setPostSlug_catches(status) == TRUE

\* Mutant: the new alias is tested against undefined, not for truthiness, so
\* that the empty alias of an emptied slug is bound.
setPostSlug_afterRead_notNull(cs, oldAlias) ==
  LET locals == [lv EXCEPT !.oldAlias = oldAlias]
  IN  IF oldAlias = lv.newAlias
        THEN /\ calls' = cs
             /\ TaskEnds("slug", "ok", NoResult, locals)
      ELSE IF NotNull(lv.newAlias)
        THEN /\ calls' = [cs EXCEPT !["addRoomAlias"] = Pending]
             /\ lv' = locals
             /\ result' = result
      ELSE IF Truthy(oldAlias)
        THEN /\ calls' = [cs EXCEPT !["removeOldAlias"] = Pending]
             /\ lv' = locals
             /\ result' = result
      ELSE /\ calls' = cs
           /\ TaskEnds("slug", "ok", NoResult, locals)

\* Mutant: the old alias is unbound first.
setPostSlug_afterRead_unbindFirst(cs, oldAlias) ==
  LET locals == [lv EXCEPT !.oldAlias = oldAlias]
  IN  IF oldAlias = lv.newAlias
        THEN /\ calls' = cs
             /\ TaskEnds("slug", "ok", NoResult, locals)
      ELSE IF Truthy(oldAlias)
        THEN /\ calls' = [cs EXCEPT !["removeOldAlias"] = Pending]
             /\ lv' = locals
             /\ result' = result
      ELSE IF Truthy(lv.newAlias)
        THEN /\ calls' = [cs EXCEPT !["addRoomAlias"] = Pending]
             /\ lv' = locals
             /\ result' = result
      ELSE /\ calls' = cs
           /\ TaskEnds("slug", "ok", NoResult, locals)

\* The code of setPostSlug after the read: nothing when the alias is unchanged,
\* else bind the new alias, or, with none wanted, unbind the old one.
setPostSlug_afterRead(cs, oldAlias) ==
  LET locals == [lv EXCEPT !.oldAlias = oldAlias]
  IN  IF oldAlias = lv.newAlias
        THEN /\ calls' = cs
             /\ TaskEnds("slug", "ok", NoResult, locals)
      ELSE IF Truthy(lv.newAlias)
        THEN /\ calls' = [cs EXCEPT !["addRoomAlias"] = Pending]
             /\ lv' = locals
             /\ result' = result
      ELSE IF Truthy(oldAlias)
        THEN /\ calls' = [cs EXCEPT !["removeOldAlias"] = Pending]
             /\ lv' = locals
             /\ result' = result
      ELSE /\ calls' = cs
           /\ TaskEnds("slug", "ok", NoResult, locals)

setPostSlug_read_ok ==
  /\ op.name = "editPost"
  /\ calls["getCanonicalAlias"].st = "pending"
  /\ HasState(stateEvents, op.postId, "m.room.canonical_alias", "")
  /\ setPostSlug_afterRead(
       [calls EXCEPT !["getCanonicalAlias"] = Ok],
       AliasOf(GetState(stateEvents, op.postId, "m.room.canonical_alias", "").content))
  /\ UNCHANGED <<remote, op, kicks>>
  /\ UNCHANGED faults

\* The read fails: with 404 when the room has no such record, or with a fault.
setPostSlug_read_fail ==
  /\ op.name = "editPost"
  /\ calls["getCanonicalAlias"].st = "pending"
  /\ \E status \in FaultStatuses \cup {404} :
       /\ Fails(status)
       /\ status = 404 => ~HasState(stateEvents, op.postId, "m.room.canonical_alias", "")
       /\ IF setPostSlug_catches(status)
            THEN setPostSlug_afterRead(
                   [calls EXCEPT !["getCanonicalAlias"] = Failed(status)], Undefined)
            ELSE /\ calls' = [calls EXCEPT !["getCanonicalAlias"] = Failed(status)]
                 /\ TaskEnds("slug", "err",
                                      MatrixError(status, "getCanonicalAlias"), lv)
  /\ UNCHANGED <<remote, op, kicks>>

setPostSlug_addRoomAlias_ok ==
  /\ op.name = "editPost"
  /\ calls["addRoomAlias"].st = "pending"
  /\ RoomExists(op.postId)
  /\ ~AliasBound(lv.newAlias)
  /\ aliases' = aliases \cup {<<lv.newAlias, op.postId>>}
  /\ calls' = [calls EXCEPT !["addRoomAlias"] = Ok, !["sendCanonicalAlias"] = Pending]
  /\ UNCHANGED <<stateEvents, timeline, op, kicks, lv, result>>
  /\ UNCHANGED faults

\* The code of setPostSlug after the canonical-alias write.
setPostSlug_afterWrite(cs) ==
  IF Truthy(lv.oldAlias)
    THEN /\ calls' = [cs EXCEPT !["removeOldAlias"] = Pending]
         /\ lv' = lv
         /\ result' = result
    ELSE /\ calls' = cs
         /\ TaskEnds("slug", "ok", NoResult, lv)

setPostSlug_sendCanonicalAlias_ok ==
  /\ op.name = "editPost"
  /\ calls["sendCanonicalAlias"].st = "pending"
  /\ CanSend(op.postId)
  /\ stateEvents' = PutState(stateEvents, op.postId, "m.room.canonical_alias", "",
                             [alias |-> lv.newAlias])
  /\ setPostSlug_afterWrite([calls EXCEPT !["sendCanonicalAlias"] = Ok])
  /\ UNCHANGED <<aliases, timeline, op, kicks>>
  /\ UNCHANGED faults

setPostSlug_removeRoomAlias_ok ==
  /\ op.name = "editPost"
  /\ calls["removeOldAlias"].st = "pending"
  /\ AliasBound(lv.oldAlias)
  /\ aliases' = {a \in aliases : a[1] # lv.oldAlias}
  /\ calls' = [calls EXCEPT !["removeOldAlias"] = Ok]
  /\ TaskEnds("slug", "ok", NoResult, lv)
  /\ UNCHANGED <<stateEvents, timeline, op, kicks>>
  /\ UNCHANGED faults

\* A call of setPostSlug after the read fails: with 409 when the new alias is
\* taken, with 404 when the old one is not bound, or with a fault.
setPostSlug_call_fail ==
  /\ op.name = "editPost"
  /\ \E c \in {"addRoomAlias", "sendCanonicalAlias", "removeOldAlias"},
        status \in FaultStatuses \cup {404, 409} :
       /\ Fails(status)
       /\ calls[c].st = "pending"
       /\ status = 409 => c = "addRoomAlias" /\ AliasBound(lv.newAlias)
       /\ status = 404 => c = "removeOldAlias" /\ ~AliasBound(lv.oldAlias)
       /\ calls' = [calls EXCEPT ![c] = Failed(status)]
       /\ TaskEnds("slug", "err", MatrixError(status, c), lv)
  /\ UNCHANGED <<remote, op, kicks>>

EventIdOf(content) ==
  IF "event_id" \in DOMAIN content THEN content.event_id ELSE NoEvent

\* Mutant: the edit replaces the latest message of the room.
setPostContent_read_ok_latest ==
  /\ op.name = "editPost"
  /\ calls["getPointer"].st = "pending"
  /\ HasState(stateEvents, op.postId, POST_CONTENT_EVENT, "")
  /\ calls' = [calls EXCEPT !["getPointer"] = Ok, !["sendEdit"] = Pending]
  /\ lv' = [lv EXCEPT !.replaces =
              <<op.postId, "m.room.message", "",
                Cardinality({m \in timeline : m.room = op.postId})>>]
  /\ UNCHANGED <<remote, op, kicks, result>>
  /\ UNCHANGED faults

\* setPostContent reads the pointer, then sends the replacing message.
setPostContent_read_ok ==
  /\ op.name = "editPost"
  /\ calls["getPointer"].st = "pending"
  /\ HasState(stateEvents, op.postId, POST_CONTENT_EVENT, "")
  /\ calls' = [calls EXCEPT !["getPointer"] = Ok, !["sendEdit"] = Pending]
  /\ lv' = [lv EXCEPT !.replaces =
              EventIdOf(GetState(stateEvents, op.postId, POST_CONTENT_EVENT, "").content)]
  /\ UNCHANGED <<remote, op, kicks, result>>
  /\ UNCHANGED faults

EditMessage(text, html, target) ==
  [body |-> <<"(edited) ">> \o text,
   formatted_body |-> <<"<p>(edited)</p> ">> \o html,
   relates_to |-> target,
   new_body |-> text, new_formatted_body |-> html]

\* Mutant: the edit also moves the content pointer to the new message.
setPostContent_send_movesPointer ==
  /\ op.name = "editPost"
  /\ calls["sendEdit"].st = "pending"
  /\ CanSend(op.postId)
  /\ timeline' = timeline \cup
       {MessageEvent(op.postId, NewMessageId(timeline, op.postId),
                     EditMessage(op.post.text, op.post.html, lv.replaces))}
  /\ stateEvents' = PutState(stateEvents, op.postId, POST_CONTENT_EVENT, "",
                             [event_id |-> NewMessageId(timeline, op.postId)])
  /\ calls' = [calls EXCEPT !["sendEdit"] = Ok]
  /\ TaskEnds("content", "ok", NoResult, lv)
  /\ UNCHANGED <<aliases, op, kicks>>
  /\ UNCHANGED faults

setPostContent_send_ok ==
  /\ op.name = "editPost"
  /\ calls["sendEdit"].st = "pending"
  /\ CanSend(op.postId)
  /\ timeline' = timeline \cup
       {MessageEvent(op.postId, NewMessageId(timeline, op.postId),
                     EditMessage(op.post.text, op.post.html, lv.replaces))}
  /\ calls' = [calls EXCEPT !["sendEdit"] = Ok]
  /\ TaskEnds("content", "ok", NoResult, lv)
  /\ UNCHANGED <<stateEvents, aliases, op, kicks>>
  /\ UNCHANGED faults

setPostContent_fail ==
  /\ op.name = "editPost"
  /\ \E c \in {"getPointer", "sendEdit"}, status \in FaultStatuses \cup {404} :
       /\ Fails(status)
       /\ calls[c].st = "pending"
       /\ status = 404 => /\ c = "getPointer"
                          /\ ~HasState(stateEvents, op.postId, POST_CONTENT_EVENT, "")
       /\ calls' = [calls EXCEPT ![c] = Failed(status)]
       /\ TaskEnds("content", "err", MatrixError(status, c), lv)
  /\ UNCHANGED <<remote, op, kicks>>

\* ------------------------------------------- two editPost calls at once
\* Two editPost calls that change the slug of the same post, started one after
\* the other without awaiting the first.  Each runs setPostSlug on its own
\* local variables; lv.edits[k] holds those of the k-th call and the client
\* call it awaits.

\* The client call setPostSlug awaits once the call `after` has been answered,
\* or "returned" when it has nothing left to do.
setPostSlug_then(after, newAlias, oldAlias) ==
  CASE after = "getStateEvent" ->
         IF oldAlias = newAlias THEN "returned"
         ELSE IF Truthy(newAlias) THEN "addRoomAlias"
         ELSE IF Truthy(oldAlias) THEN "removeRoomAlias"
         ELSE "returned"
    [] after = "addRoomAlias" -> "sendStateEvent"
    [] after = "sendStateEvent" ->
         IF Truthy(oldAlias) THEN "removeRoomAlias" ELSE "returned"
    [] after = "removeRoomAlias" -> "returned"

\* Both promises have settled: the caller, who awaits the two, goes on.
editPostTwice_settled(edits) ==
  IF \E k \in DOMAIN edits : edits[k].awaits \notin {"returned", "thrown"}
    THEN NoResult
  ELSE IF \E k \in DOMAIN edits : edits[k].awaits = "thrown"
    THEN LET k == CHOOSE j \in DOMAIN edits : edits[j].awaits = "thrown"
         IN  edits[k].error
  ELSE Resolved

editPostTwice(postId, slug1, slug2) ==
  /\ op = Idle
  /\ op' = [name |-> "editPostTwice", postId |-> postId, slugs |-> <<slug1, slug2>>]
  /\ lv' = [NoLocals EXCEPT
              !.before = remote,
              !.edits = [k \in 1..2 |->
                           [newAlias |-> setPostSlug_newAlias(<<slug1, slug2>>[k]),
                            oldAlias |-> Undefined,
                            awaits |-> "getStateEvent",
                            error |-> NoResult]]]
  /\ calls' = [c \in CallNames |-> NoCall]
  /\ kicks' = [u \in Users |-> NoCall]
  /\ result' = NoResult
  /\ UNCHANGED remote
  /\ UNCHANGED faults

\* The k-th call's awaited client call is answered.
editPostTwice_answered(k, oldAlias) ==
  LET e == lv.edits[k]
      edits == [lv.edits EXCEPT ![k] =
                  [e EXCEPT !.oldAlias = oldAlias,
                            !.awaits = setPostSlug_then(e.awaits, e.newAlias, oldAlias)]]
  IN  /\ lv' = [lv EXCEPT !.edits = edits]
      /\ result' = editPostTwice_settled(edits)

\* The k-th call's awaited client call fails outside the try block.
editPostTwice_thrown(k, status) ==
  LET e == lv.edits[k]
      edits == [lv.edits EXCEPT ![k] =
                  [e EXCEPT !.awaits = "thrown",
                            !.error = MatrixError(status, e.awaits)]]
  IN  /\ lv' = [lv EXCEPT !.edits = edits]
      /\ result' = editPostTwice_settled(edits)

editPostTwice_read_ok(k) ==
  /\ op.name = "editPostTwice"
  /\ lv.edits[k].awaits = "getStateEvent"
  /\ HasState(stateEvents, op.postId, "m.room.canonical_alias", "")
  /\ editPostTwice_answered(
       k, AliasOf(GetState(stateEvents, op.postId, "m.room.canonical_alias", "").content))
  /\ UNCHANGED <<remote, op, calls, kicks>>
  /\ UNCHANGED faults

editPostTwice_read_fail(k) ==
  /\ op.name = "editPostTwice"
  /\ lv.edits[k].awaits = "getStateEvent"
  /\ \E status \in FaultStatuses \cup {404} :
       /\ Fails(status)
       /\ status = 404 => ~HasState(stateEvents, op.postId, "m.room.canonical_alias", "")
       /\ IF setPostSlug_catches(status)
            THEN editPostTwice_answered(k, Undefined)
            ELSE editPostTwice_thrown(k, status)
  /\ UNCHANGED <<remote, op, calls, kicks>>

editPostTwice_addRoomAlias_ok(k) ==
  /\ op.name = "editPostTwice"
  /\ lv.edits[k].awaits = "addRoomAlias"
  /\ RoomExists(op.postId)
  /\ ~AliasBound(lv.edits[k].newAlias)
  /\ aliases' = aliases \cup {<<lv.edits[k].newAlias, op.postId>>}
  /\ editPostTwice_answered(k, lv.edits[k].oldAlias)
  /\ UNCHANGED <<stateEvents, timeline, op, calls, kicks>>
  /\ UNCHANGED faults

editPostTwice_sendCanonicalAlias_ok(k) ==
  /\ op.name = "editPostTwice"
  /\ lv.edits[k].awaits = "sendStateEvent"
  /\ CanSend(op.postId)
  /\ stateEvents' = PutState(stateEvents, op.postId, "m.room.canonical_alias", "",
                             [alias |-> lv.edits[k].newAlias])
  /\ editPostTwice_answered(k, lv.edits[k].oldAlias)
  /\ UNCHANGED <<aliases, timeline, op, calls, kicks>>
  /\ UNCHANGED faults

editPostTwice_removeRoomAlias_ok(k) ==
  /\ op.name = "editPostTwice"
  /\ lv.edits[k].awaits = "removeRoomAlias"
  /\ AliasBound(lv.edits[k].oldAlias)
  /\ aliases' = {a \in aliases : a[1] # lv.edits[k].oldAlias}
  /\ editPostTwice_answered(k, lv.edits[k].oldAlias)
  /\ UNCHANGED <<stateEvents, timeline, op, calls, kicks>>
  /\ UNCHANGED faults

\* A call after the read fails: with 409 when the new alias is taken, with 404
\* when the old one is not bound, or with a fault.
editPostTwice_call_fail(k) ==
  /\ op.name = "editPostTwice"
  /\ lv.edits[k].awaits \in {"addRoomAlias", "sendStateEvent", "removeRoomAlias"}
  /\ \E status \in FaultStatuses \cup {404, 409} :
       /\ Fails(status)
       /\ status = 409 => /\ lv.edits[k].awaits = "addRoomAlias"
                          /\ AliasBound(lv.edits[k].newAlias)
       /\ status = 404 => /\ lv.edits[k].awaits = "removeRoomAlias"
                          /\ ~AliasBound(lv.edits[k].oldAlias)
       /\ editPostTwice_thrown(k, status)
  /\ UNCHANGED <<remote, op, calls, kicks>>

\* ------------------------------------------------------------- getPost
getPost(postId) ==
  /\ op = Idle
  /\ op' = [name |-> "getPost", postId |-> postId]
  /\ calls' = [c \in CallNames |->
                 IF c \in {"getName", "getTopic", "getAlias", "getPostState"}
                   THEN Pending ELSE NoCall]
  /\ kicks' = [u \in Users |-> NoCall]
  /\ lv' = [NoLocals EXCEPT !.tasks = [t \in Tasks |-> "running"]]
  /\ result' = NoResult
  /\ UNCHANGED remote
  /\ UNCHANGED faults

NameOf(content) == IF "name" \in DOMAIN content THEN content.name ELSE Undefined
TopicOf(content) == IF "topic" \in DOMAIN content THEN content.topic ELSE Undefined

\* A single-record read fails: with 404 when the room has no such record, or
\* with a fault.
ReadFails(status, room, type) ==
  /\ Fails(status)
  /\ status = 404 => ~HasState(stateEvents, room, type, "")

getPostTitle_ok ==
  /\ op.name = "getPost"
  /\ calls["getName"].st = "pending"
  /\ HasState(stateEvents, op.postId, "m.room.name", "")
  /\ calls' = [calls EXCEPT !["getName"] = Ok]
  /\ TaskEnds("title", "ok", NoResult,
              [lv EXCEPT !.title =
                 NameOf(GetState(stateEvents, op.postId, "m.room.name", "").content)])
  /\ UNCHANGED <<remote, op, kicks>>
  /\ UNCHANGED faults

\* getPostTitle has no catch.
getPostTitle_fail ==
  /\ op.name = "getPost"
  /\ calls["getName"].st = "pending"
  /\ \E status \in FaultStatuses \cup {404} :
       /\ ReadFails(status, op.postId, "m.room.name")
       /\ calls' = [calls EXCEPT !["getName"] = Failed(status)]
       /\ TaskEnds("title", "err", MatrixError(status, "getName"), lv)
  /\ UNCHANGED <<remote, op, kicks>>

getPostSummary_ok ==
  /\ op.name = "getPost"
  /\ calls["getTopic"].st = "pending"
  /\ HasState(stateEvents, op.postId, "m.room.topic", "")
  /\ calls' = [calls EXCEPT !["getTopic"] = Ok]
  /\ TaskEnds("summary", "ok", NoResult,
              [lv EXCEPT !.summary =
                 TopicOf(GetState(stateEvents, op.postId, "m.room.topic", "").content)])
  /\ UNCHANGED <<remote, op, kicks>>
  /\ UNCHANGED faults

\* Mutant: the catch has no condition.
getPostSummary_catches_all(status) == TRUE

\* e instanceof MatrixError && e.status === 404
getPostSummary_catches(status) == status = 404

getPostSummary_fail ==
  /\ op.name = "getPost"
  /\ calls["getTopic"].st = "pending"
  /\ \E status \in FaultStatuses \cup {404} :
       /\ ReadFails(status, op.postId, "m.room.topic")
       /\ calls' = [calls EXCEPT !["getTopic"] = Failed(status)]
       /\ IF getPostSummary_catches(status)
            THEN TaskEnds("summary", "ok", NoResult, [lv EXCEPT !.summary = Undefined])
            ELSE TaskEnds("summary", "err", MatrixError(status, "getTopic"), lv)
  /\ UNCHANGED <<remote, op, kicks>>

\* if (!alias) return undefined; return this.getSlugFromRoomAlias(alias)
getPostSlug_value(alias) ==
  IF Truthy(alias) THEN getSlugFromRoomAlias(alias) ELSE Undefined

getPostSlug_ok ==
  /\ op.name = "getPost"
  /\ calls["getAlias"].st = "pending"
  /\ HasState(stateEvents, op.postId, "m.room.canonical_alias", "")
  /\ calls' = [calls EXCEPT !["getAlias"] = Ok]
  /\ TaskEnds("slug", "ok", NoResult,
              [lv EXCEPT !.slug = getPostSlug_value(AliasOf(
                 GetState(stateEvents, op.postId, "m.room.canonical_alias", "").content))])
  /\ UNCHANGED <<remote, op, kicks>>
  /\ UNCHANGED faults

\* e instanceof MatrixError && e.status === 404
getPostSlug_catches(status) == status = 404

getPostSlug_fail ==
  /\ op.name = "getPost"
  /\ calls["getAlias"].st = "pending"
  /\ \E status \in FaultStatuses \cup {404} :
       /\ ReadFails(status, op.postId, "m.room.canonical_alias")
       /\ calls' = [calls EXCEPT !["getAlias"] = Failed(status)]
       /\ IF getPostSlug_catches(status)
            THEN TaskEnds("slug", "ok", NoResult, [lv EXCEPT !.slug = Undefined])
            ELSE TaskEnds("slug", "err", MatrixError(status, "getAlias"), lv)
  /\ UNCHANGED <<remote, op, kicks>>

\* Mutant: the lookup also accepts the creation record.
getPostContent_findPointer_orCreate(fetched) ==
  {e \in fetched : e.type \in {POST_CONTENT_EVENT, "m.room.create"}}

\* stateEvents.find(event => event.type === POST_CONTENT_EVENT)
getPostContent_findPointer(fetched) == {e \in fetched : e.type = POST_CONTENT_EVENT}

\* (aliasEvent?.content.alias) ? aliasEvent.origin_server_ts : undefined
getPostContent_publishedMs(fetched) ==
  IF Truthy(CanonicalAliasIn(fetched))
    THEN (CHOOSE e \in fetched : e.type = "m.room.canonical_alias").origin_server_ts
    ELSE NoTime

\* The post's state arrives: without a pointer record getPostContent throws,
\* with one it fetches the message the pointer names.
getPostContent_state_ok ==
  /\ op.name = "getPost"
  /\ calls["getPostState"].st = "pending"
  /\ RoomExists(op.postId)
  /\ LET fetched == StateOf(stateEvents, op.postId)
         pointers == getPostContent_findPointer(fetched)
     IN  IF pointers = {}
           THEN /\ calls' = [calls EXCEPT !["getPostState"] = Ok]
                /\ TaskEnds("content", "err",
                            BlogServiceError("Could not find post content event"),
                            [lv EXCEPT !.stateEvents = fetched])
           ELSE \E postContent \in pointers :
                  /\ calls' = [calls EXCEPT !["getPostState"] = Ok,
                                            !["getEvent"] = Pending]
                  /\ lv' = [lv EXCEPT
                              !.stateEvents = fetched,
                              !.contentEvent = EventIdOf(postContent.content),
                              !.content.published_ms = getPostContent_publishedMs(fetched)]
                  /\ result' = result
  /\ UNCHANGED <<remote, op, kicks>>
  /\ UNCHANGED faults

MessageExists(room, id) == \E m \in timeline : m.room = room /\ m.event_id = id
GetMessage(room, id) == CHOOSE m \in timeline : m.room = room /\ m.event_id = id

\* unsigned['m.relations']['m.replace'] of a message: the homeserver puts there
\* the latest message that replaces it.
Replacements(room, id) == {m \in timeline : m.room = room /\ m.content.relates_to = id}
LatestReplacement(room, id) ==
  CHOOSE m \in Replacements(room, id) :
    \A n \in Replacements(room, id) : n.event_id[4] <= m.event_id[4]

\* Mutant: the timestamp is read from the message, not from its relation.
getPostContent_editedMs_ofMessage(room, id) == GetMessage(room, id).origin_server_ts

\* message.unsigned?.['m.relations']?.['m.replace'].origin_server_ts
getPostContent_editedMs(room, id) ==
  IF Replacements(room, id) = {} THEN NoTime
  ELSE LatestReplacement(room, id).origin_server_ts

getPostContent_event_ok ==
  /\ op.name = "getPost"
  /\ calls["getEvent"].st = "pending"
  /\ MessageExists(op.postId, lv.contentEvent)
  /\ LET message == GetMessage(op.postId, lv.contentEvent)
     IN  /\ calls' = [calls EXCEPT !["getEvent"] = Ok]
         /\ TaskEnds("content", "ok", NoResult,
                     [lv EXCEPT !.content =
                        [text |-> message.content.body,
                         html |-> message.content.formatted_body,
                         created_ms |-> message.origin_server_ts,
                         published_ms |-> lv.content.published_ms,
                         edited_ms |-> getPostContent_editedMs(op.postId,
                                                               lv.contentEvent)]])
  /\ UNCHANGED <<remote, op, kicks>>
  /\ UNCHANGED faults

getPostContent_fail ==
  /\ op.name = "getPost"
  /\ \E c \in {"getPostState", "getEvent"}, status \in FaultStatuses \cup {404} :
       /\ Fails(status)
       /\ calls[c].st = "pending"
       /\ status = 404 => IF c = "getPostState" THEN ~RoomExists(op.postId)
                          ELSE ~MessageExists(op.postId, lv.contentEvent)
       /\ calls' = [calls EXCEPT ![c] = Failed(status)]
       /\ TaskEnds("content", "err", MatrixError(status, c), lv)
  /\ UNCHANGED <<remote, op, kicks>>

\* ------------------------------------------------------ the environment
\* The post rooms are public (preset public_chat): anyone may join them.
UserJoins(user, room) ==
  /\ RoomExists(room)
  /\ ~HasState(stateEvents, room, "m.room.member", user)
  /\ CanAssign(1)
  /\ stateEvents' = PutState(stateEvents, room, "m.room.member", user,
                             [membership |-> "join"])
  /\ UNCHANGED <<aliases, timeline, op, calls, kicks, lv, result>>
  /\ UNCHANGED faults

\* ------------------------------------------------------------ the caller
AnyPending ==
  \/ \E c \in CallNames : calls[c].st = "pending"
  \/ \E u \in Users : kicks[u].st = "pending"

\* The method's promise has settled and no call is in flight: the caller may
\* start the next method.  What was written on the homeserver stays.
Return ==
  /\ op # Idle
  /\ result.kind # "none"
  /\ ~AnyPending
  /\ op' = Idle
  /\ calls' = [c \in CallNames |-> NoCall]
  /\ kicks' = [u \in Users |-> NoCall]
  /\ lv' = NoLocals
  /\ result' = NoResult
  /\ faults' = 0
  /\ UNCHANGED remote

\* -------------------------------------------------------------- getBlog
getBlog(id) ==
  /\ op = Idle
  /\ op' = [name |-> "getBlog", id |-> id]
  /\ calls' = [c \in CallNames |-> IF c = "getRoomState" THEN Pending ELSE NoCall]
  /\ kicks' = [u \in Users |-> NoCall]
  /\ lv' = NoLocals
  /\ result' = NoResult
  /\ UNCHANGED remote
  /\ UNCHANGED faults

\* createEvent.content[TYPE_KEY], undefined when the content has no such key.
TypeOf(content) == IF TYPE_KEY \in DOMAIN content THEN content[TYPE_KEY] ELSE "undefined"

\* Mutant: the creation record is enough, its type is not looked at.
getStateEvents_validate_createOnly(fetched) ==
  IF ~\E e \in fetched : e.type = "m.room.create"
    THEN "Could not find room creation event"
    ELSE ""

\* The private getStateEvents: the message of the error it throws on the fetched
\* state, "" when it returns the state.
getStateEvents_validate(fetched) ==
  IF ~\E e \in fetched : e.type = "m.room.create"
    THEN "Could not find room creation event"
  ELSE IF TypeOf((CHOOSE e \in fetched : e.type = "m.room.create").content) # SPACE_VALUE
    THEN "This room is not a space"
  ELSE ""

\* nameEvent.content.name and topicEvent.content.topic, when the records exist.
getBlog_name(fetched) ==
  IF \E e \in fetched : e.type = "m.room.name"
    THEN NameOf((CHOOSE e \in fetched : e.type = "m.room.name").content)
    ELSE Undefined

getBlog_topic(fetched) ==
  IF \E e \in fetched : e.type = "m.room.topic"
    THEN TopicOf((CHOOSE e \in fetched : e.type = "m.room.topic").content)
    ELSE Undefined

\* The room's state arrives: it is validated, then read.
getBlog_state_ok ==
  /\ op.name = "getBlog"
  /\ calls["getRoomState"].st = "pending"
  /\ StateOf(stateEvents, op.id) # {}
  /\ LET fetched == StateOf(stateEvents, op.id)
         error == getStateEvents_validate(fetched)
     IN  /\ calls' = [calls EXCEPT !["getRoomState"] = Ok]
         /\ IF error # ""
              THEN /\ lv' = [lv EXCEPT !.stateEvents = fetched]
                   /\ result' = Reject(BlogServiceError(error))
              ELSE /\ lv' = [lv EXCEPT !.stateEvents = fetched,
                                       !.blog = [id |-> op.id,
                                                 title |-> getBlog_name(fetched),
                                                 description |-> getBlog_topic(fetched)]]
                   /\ result' = Resolved
  /\ UNCHANGED <<remote, op, kicks>>
  /\ UNCHANGED faults

\* The fetch fails: with 404 when the homeserver has no such room, or with a fault.
getBlog_state_fail ==
  /\ op.name = "getBlog"
  /\ calls["getRoomState"].st = "pending"
  /\ \E status \in FaultStatuses \cup {404} :
       /\ Fails(status)
       /\ status = 404 => StateOf(stateEvents, op.id) = {}
       /\ calls' = [calls EXCEPT !["getRoomState"] = Failed(status)]
       /\ result' = Reject(MatrixError(status, "getRoomState"))
  /\ UNCHANGED <<remote, op, kicks, lv>>

\* The rooms getBlog may be asked about: with no creation record in their state,
\* with one that has no type, with the type of another kind of room or with the
\* space type; with and without a name and a topic.
NoCreate == [absent |-> TRUE]
CreateContents ==
  {NoCreate, [creator |-> Me], [creator |-> Me] @@ (TYPE_KEY :> "m.other"),
   [creator |-> Me] @@ (TYPE_KEY :> SPACE_VALUE)}

BlogRoomState(create, name, topic) ==
  LET s0 == PutState({}, BlogId, "m.room.member", Me, [membership |-> "join"])
      s1 == IF create = NoCreate THEN s0
            ELSE PutState(s0, BlogId, "m.room.create", "", create)
      s2 == IF name = Undefined THEN s1
            ELSE PutState(s1, BlogId, "m.room.name", "", [name |-> name])
  IN  IF topic = Undefined THEN s2
      ELSE PutState(s2, BlogId, "m.room.topic", "", [topic |-> topic])

InitBlog ==
  /\ stateEvents \in {BlogRoomState(create, name, topic) :
                        create \in CreateContents,
                        name \in Titles \cup {Undefined},
                        topic \in Summaries}
  /\ aliases = {}
  /\ timeline = {}
  /\ op = Idle
  /\ calls = [c \in CallNames |-> NoCall]
  /\ kicks = [u \in Users |-> NoCall]
  /\ lv = NoLocals
  /\ result = NoResult
  /\ faults = 0

\* ----------------------------------- getBlogWithPosts, getPosts, getFullPosts
\* The rooms of a space summary: what the homeserver says of each, a name and a
\* topic or neither, and no canonical alias, an empty one, one under the prefix
\* or one of another scheme.
SummaryRoomIds == {BlogId, "!p1", "!p2"}
SummaryAliases == {Undefined, <<>>, createRoomAlias(<<"x">>), <<"#", "o", ":", "s">>}
PublicRoomsChunks ==
  {[room_id |-> id, name |-> nt[1], topic |-> nt[2], canonical_alias |-> alias] :
     id \in SummaryRoomIds,
     nt \in {<<Undefined, Undefined>>, <<(<<"T">>), (<<"S">>)>>},
     alias \in SummaryAliases}
PlainChunks ==
  {c \in PublicRoomsChunks : c.name = Undefined /\ c.canonical_alias = Undefined}

SeqsOver(set, n) == UNION {[1..k -> set] : k \in 0..n}

\* The answers to getSpaceSummary; getFullPosts is tried on the plain rooms.
SpaceSummaries(method) ==
  IF method = "getFullPosts" THEN SeqsOver(PlainChunks, MaxRooms)
  ELSE SeqsOver(PublicRoomsChunks, MaxRooms)

PostsMethods == {"getBlogWithPosts", "getPosts", "getFullPosts"}

\* getPosts awaits getBlogWithPosts and getFullPosts awaits getPosts: the three
\* start with the same getSpaceSummary call.
getBlogWithPosts(method, id) ==
  /\ op = Idle
  /\ op' = [name |-> method, id |-> id]
  /\ calls' = [c \in CallNames |-> IF c = "getSpaceSummary" THEN Pending ELSE NoCall]
  /\ kicks' = [u \in Users |-> NoCall]
  /\ lv' = NoLocals
  /\ result' = NoResult
  /\ UNCHANGED remote
  /\ UNCHANGED faults

\* Mutant: the first room of the summary is taken for the blog.
getBlogWithPosts_blogRoom_first(rooms, id) ==
  IF rooms = <<>> THEN <<>> ELSE <<rooms[1]>>

\* spaceSummary.rooms.find((room) => room.room_id === id): the rooms it may
\* return, the first of them being the one it does.
getBlogWithPosts_blogRoom(rooms, id) == SelectSeq(rooms, LAMBDA room : room.room_id = id)

\* room.canonical_alias && this.getSlugFromRoomAlias(room.canonical_alias)
getBlogWithPosts_slug(canonical_alias) ==
  IF Truthy(canonical_alias) THEN getSlugFromRoomAlias(canonical_alias)
  ELSE canonical_alias

\* spaceSummary.rooms.filter((room) => room.room_id !== id).map(...)
getBlogWithPosts_posts(rooms, id) ==
  LET others == SelectSeq(rooms, LAMBDA room : room.room_id # id)
  IN  [i \in 1..Len(others) |->
         [id |-> others[i].room_id, title |-> others[i].name,
          summary |-> others[i].topic,
          slug |-> getBlogWithPosts_slug(others[i].canonical_alias)]]

FetchingState == [st |-> "state", contentEvent |-> NoEvent, content |-> NoContent]

\* The summary arrives.  Without the blog's room in it the method throws; with
\* it getBlogWithPosts and getPosts return, and getFullPosts asks for the
\* content of every post at once.
getBlogWithPosts_summary_ok ==
  /\ op.name \in PostsMethods
  /\ calls["getSpaceSummary"].st = "pending"
  /\ \E rooms \in SpaceSummaries(op.name) :
       LET blogRooms == getBlogWithPosts_blogRoom(rooms, op.id)
           posts == getBlogWithPosts_posts(rooms, op.id)
       IN  IF blogRooms = <<>>
             THEN /\ lv' = [lv EXCEPT !.spaceSummary = rooms]
                  /\ result' = Reject(BlogServiceError("Could not find blog room"))
             ELSE /\ lv' = [lv EXCEPT
                              !.spaceSummary = rooms,
                              !.blog = [id |-> op.id, title |-> blogRooms[1].name,
                                        description |-> blogRooms[1].topic],
                              !.posts = posts,
                              !.contents = IF op.name = "getFullPosts"
                                             THEN [i \in 1..Len(posts) |-> FetchingState]
                                             ELSE <<>>]
                  /\ result' = IF op.name = "getFullPosts" /\ posts # <<>>
                                 THEN result ELSE Resolved
  /\ calls' = [calls EXCEPT !["getSpaceSummary"] = Ok]
  /\ UNCHANGED <<remote, op, kicks>>
  /\ UNCHANGED faults

getBlogWithPosts_summary_fail ==
  /\ op.name \in PostsMethods
  /\ calls["getSpaceSummary"].st = "pending"
  /\ \E status \in FaultStatuses :
       /\ Fails(status)
       /\ calls' = [calls EXCEPT !["getSpaceSummary"] = Failed(status)]
       /\ result' = Reject(MatrixError(status, "getSpaceSummary"))
  /\ UNCHANGED <<remote, op, kicks, lv>>

\* Promise.all(postMetadata.map((post) => this.getPostContent(post.id)))
getFullPosts_joined(contents) ==
  IF result.kind # "none" THEN result
  ELSE IF \A i \in 1..Len(contents) : contents[i].st = "ok" THEN Resolved
  ELSE result

\* getPostContent of the i-th post: its state arrives.
getFullPosts_state_ok(i) ==
  /\ op.name = "getFullPosts"
  /\ i \in 1..Len(lv.contents)
  /\ lv.contents[i].st = "state"
  /\ RoomExists(lv.posts[i].id)
  /\ LET fetched == StateOf(stateEvents, lv.posts[i].id)
         pointers == getPostContent_findPointer(fetched)
     IN  IF pointers = {}
           THEN /\ lv' = [lv EXCEPT !.contents[i].st = "err"]
                /\ result' = Reject(BlogServiceError("Could not find post content event"))
           ELSE \E postContent \in pointers :
                  /\ lv' = [lv EXCEPT
                              !.contents[i].st = "event",
                              !.contents[i].contentEvent = EventIdOf(postContent.content),
                              !.contents[i].content.published_ms =
                                 getPostContent_publishedMs(fetched)]
                  /\ result' = result
  /\ UNCHANGED <<remote, op, calls, kicks>>
  /\ UNCHANGED faults

\* getPostContent of the i-th post: the message arrives.
getFullPosts_event_ok(i) ==
  /\ op.name = "getFullPosts"
  /\ i \in 1..Len(lv.contents)
  /\ lv.contents[i].st = "event"
  /\ MessageExists(lv.posts[i].id, lv.contents[i].contentEvent)
  /\ LET message == GetMessage(lv.posts[i].id, lv.contents[i].contentEvent)
         contents == [lv.contents EXCEPT
                        ![i].st = "ok",
                        ![i].content =
                           [text |-> message.content.body,
                            html |-> message.content.formatted_body,
                            created_ms |-> message.origin_server_ts,
                            published_ms |-> lv.contents[i].content.published_ms,
                            edited_ms |-> getPostContent_editedMs(
                                            lv.posts[i].id, lv.contents[i].contentEvent)]]
     IN  /\ lv' = [lv EXCEPT !.contents = contents]
         /\ result' = getFullPosts_joined(contents)
  /\ UNCHANGED <<remote, op, calls, kicks>>
  /\ UNCHANGED faults

\* A call of the i-th getPostContent fails: with 404 when the homeserver has no
\* such room or no such message, or with a fault.
getFullPosts_content_fail(i) ==
  /\ op.name = "getFullPosts"
  /\ i \in 1..Len(lv.contents)
  /\ lv.contents[i].st \in {"state", "event"}
  /\ \E status \in FaultStatuses \cup {404} :
       /\ Fails(status)
       /\ status = 404 =>
            IF lv.contents[i].st = "state" THEN ~RoomExists(lv.posts[i].id)
            ELSE ~MessageExists(lv.posts[i].id, lv.contents[i].contentEvent)
       /\ lv' = [lv EXCEPT !.contents[i].st = "err"]
       /\ result' = Reject(MatrixError(status,
                             IF lv.contents[i].st = "state" THEN "getPostState"
                             ELSE "getEvent"))
  /\ UNCHANGED <<remote, op, calls, kicks>>

\* The homeserver the summaries are asked of: the blog, and the post !p1 absent,
\* as addPost leaves it, or as an addPost that failed before the pointer write
\* leaves it.
PostRoomState(S, room, withPointer) ==
  LET s1 == PutState(S, room, "m.room.create", "", [creator |-> Me])
      s2 == PutState(s1, room, "m.room.member", Me, [membership |-> "join"])
      s3 == PutState(s2, room, "m.room.name", "", [name |-> <<"T">>])
      s4 == PutState(s3, BlogId, CHILD_EVENT, room, [via |-> <<serverName>>])
      s5 == PutState(s4, room, PARENT_EVENT, BlogId,
                     [via |-> <<serverName>>, canonical |-> TRUE])
  IN  IF withPointer
        THEN PutState(s5, room, POST_CONTENT_EVENT, "",
                      [event_id |-> NewMessageId({}, room)])
        ELSE s5

BlogOnly ==
  PutState(PutState({}, BlogId, "m.room.create", "", TYPE_KEY :> SPACE_VALUE),
           BlogId, "m.room.member", Me, [membership |-> "join"])

FirstMessage(room) ==
  MessageEvent(room, NewMessageId({}, room), TextMessage(<<"a">>, <<"h">>))

InitPosts ==
  /\ \E world \in {"blog", "post", "orphan"} :
       /\ stateEvents = CASE world = "blog" -> BlogOnly
                          [] world = "post" -> PostRoomState(BlogOnly, "!p1", TRUE)
                          [] world = "orphan" -> PostRoomState(BlogOnly, "!p1", FALSE)
       /\ timeline = IF world = "blog" THEN {} ELSE {FirstMessage("!p1")}
  /\ aliases = {}
  /\ op = Idle
  /\ calls = [c \in CallNames |-> NoCall]
  /\ kicks = [u \in Users |-> NoCall]
  /\ lv = NoLocals
  /\ result = NoResult
  /\ faults = 0

\* ------------------------------------------------------ naming helpers
\* A service configured with some prefix is asked for the alias of a slug, or
\* handed an alias from elsewhere, and then for the slug of that alias.
NameChars == {"a", ".", ":"}
StringsOver(chars, n) == UNION {[1..k -> chars] : k \in 0..n}
Prefixes == StringsOver({"a", "."}, MaxNameLen)
Names == StringsOver(NameChars, MaxNameLen)
Aliases == StringsOver(NameChars \cup {"#"}, MaxNameLen + 2)

InitNaming ==
  /\ stateEvents = {}
  /\ aliases = {}
  /\ timeline = {}
  /\ op \in [name : {"naming"}, roomPrefix : Prefixes, slug : {Undefined}]
  /\ calls = [c \in CallNames |-> NoCall]
  /\ kicks = [u \in Users |-> NoCall]
  /\ lv = NoLocals
  /\ result = NoResult
  /\ faults = 0

naming_createRoomAlias(slug) ==
  /\ op.name = "naming"
  /\ lv.aliasArg = Undefined
  /\ op' = [op EXCEPT !.slug = slug]
  /\ lv' = [lv EXCEPT !.aliasArg = createRoomAliasFor(op.roomPrefix, serverName, slug)]
  /\ UNCHANGED <<remote, calls, kicks, result, faults>>

naming_givenAlias(alias) ==
  /\ op.name = "naming"
  /\ lv.aliasArg = Undefined
  /\ lv' = [lv EXCEPT !.aliasArg = alias]
  /\ UNCHANGED <<remote, op, calls, kicks, result, faults>>

naming_getSlugFromRoomAlias ==
  /\ op.name = "naming"
  /\ lv.aliasArg # Undefined
  /\ result = NoResult
  /\ lv' = [lv EXCEPT !.slug = getSlugFromRoomAliasFor(op.roomPrefix, lv.aliasArg)]
  /\ result' = Resolved
  /\ UNCHANGED <<remote, op, calls, kicks, faults>>

\* ================================================================ claims
JoinedCalls == {"sendMessage", "sendChild", "sendParent"}

\* C1: in addPost the message send and the two linkage writes are issued only
\* once createRoom has completed; the content-pointer write is issued only once
\* all three have completed successfully, and the event id it carries is the
\* one the message send of this addPost returned.
C1_AddPostOrder ==
  op.name = "addPost" =>
    /\ (\E c \in JoinedCalls : calls[c].st # "none") => calls["createRoom"].st = "ok"
    /\ calls["sendPointer"].st # "none" =>
         /\ \A c \in JoinedCalls : calls[c].st = "ok"
         /\ lv.pointerArg = lv.messageEventId
         /\ \E m \in timeline : /\ m.room = lv.postId
                                /\ m.event_id = lv.pointerArg
                                /\ m.content.body = op.post.text
    /\ calls["sendPointer"].st = "ok" =>
         /\ HasState(stateEvents, lv.postId, POST_CONTENT_EVENT, "")
         /\ GetState(stateEvents, lv.postId, POST_CONTENT_EVENT, "").content
              = [event_id |-> lv.messageEventId]

C1_Witness ==
  /\ op.name = "addPost"
  /\ calls["sendPointer"].st = "ok"
  /\ result = Resolved

\* C10: when one of the three joined calls of addPost fails, addPost rejects with
\* the error of a failed call, the content-pointer write is never issued, and
\* nothing is undone: the room, its alias, the agent's membership and the writes
\* that completed stay, so the room has no content pointer.
C10_AddPostNoRollback ==
  (op.name = "addPost" /\ \E c \in JoinedCalls : calls[c].st = "err") =>
    /\ result.kind = "matrix"
    /\ result.from \in JoinedCalls
    /\ calls[result.from] = Failed(result.status)
    /\ calls["sendPointer"].st = "none"
    /\ RoomExists(lv.postId)
    /\ Joined(lv.postId, Me)
    /\ ~HasState(stateEvents, lv.postId, POST_CONTENT_EVENT, "")
    /\ Truthy(op.post.slug) => <<createRoomAlias(op.post.slug), lv.postId>> \in aliases
    /\ calls["sendMessage"].st = "ok" => MessageExists(lv.postId, lv.messageEventId)
    /\ calls["sendChild"].st = "ok" =>
         /\ HasState(stateEvents, op.blogId, CHILD_EVENT, lv.postId)
         /\ ~GetState(stateEvents, op.blogId, CHILD_EVENT, lv.postId).redacted
    /\ calls["sendParent"].st = "ok" =>
         /\ HasState(stateEvents, lv.postId, PARENT_EVENT, op.blogId)
         /\ ~GetState(stateEvents, lv.postId, PARENT_EVENT, op.blogId).redacted

C10_Witness ==
  /\ op.name = "addPost"
  /\ calls["sendMessage"].st = "err"
  /\ calls["sendChild"].st = "ok"
  /\ calls["sendParent"].st = "ok"
  /\ result.kind = "matrix"
  /\ RoomExists(lv.postId)
  /\ ~HasState(stateEvents, lv.postId, POST_CONTENT_EVENT, "")

\* C2: deletePost on a post whose fetched state has no parent-link record rejects
\* with 'No parent linkage' and issues no redactEvent, kickUser, removeRoomAlias
\* or leaveRoom call.
C2_NoParentLinkage ==
  (/\ op.name = "deletePost"
   /\ calls["getStateEvents"].st = "ok"
   /\ ~\E e \in lv.stateEvents : e.type = PARENT_EVENT) =>
    /\ result = BlogServiceError("No parent linkage")
    /\ \A c \in {"redactParent", "redactChild", "removeRoomAlias", "leaveRoom"} :
         calls[c].st = "none"
    /\ \A u \in Users : kicks[u].st = "none"

C2_Witness ==
  /\ op.name = "deletePost"
  /\ calls["getStateEvents"].st = "ok"
  /\ lv.stateEvents # {}
  /\ result = BlogServiceError("No parent linkage")

\* C3: in deletePost leaveRoom is issued only once the parent redaction, the
\* child lookup and redaction, the alias unbind (when the fetched state names a
\* canonical alias) and every eviction have completed successfully; when one of
\* them fails, deletePost rejects, leaveRoom is never issued and the agent is
\* still a member of the post room.
C3_LeaveLast ==
  op.name = "deletePost" =>
    /\ calls["leaveRoom"].st # "none" =>
         /\ calls["redactParent"].st = "ok"
         /\ calls["getBlogState"].st = "ok"
         /\ \/ calls["redactChild"].st = "ok"
            \/ /\ calls["redactChild"].st = "none"
               /\ ~HasState(stateEvents, lv.blogId, CHILD_EVENT, op.postId)
         /\ \/ calls["removeRoomAlias"].st = "ok"
            \/ /\ calls["removeRoomAlias"].st = "none"
               /\ ~\E e \in lv.stateEvents : /\ e.type = "m.room.canonical_alias"
                                             /\ "alias" \in DOMAIN e.content
         /\ \A u \in Users :
              \/ kicks[u].st = "ok"
              \/ /\ kicks[u].st = "none"
                 /\ \/ u = Me
                    \/ ~\E e \in lv.stateEvents : /\ e.type = "m.room.member"
                                                  /\ e.state_key = u
    /\ (\/ \E c \in {"redactParent", "getBlogState", "redactChild", "removeRoomAlias"} :
             calls[c].st = "err"
        \/ \E u \in Users : kicks[u].st = "err") =>
         /\ result.kind = "matrix"
         /\ calls["leaveRoom"].st = "none"
         /\ (\E e \in lv.stateEvents : /\ e.type = "m.room.member"
                                       /\ e.state_key = Me
                                       /\ e.content = [membership |-> "join"])
              => Joined(op.postId, Me)

C3_Witness ==
  /\ op.name = "deletePost"
  /\ calls["leaveRoom"].st = "ok"
  /\ calls["redactChild"].st = "ok"
  /\ \E u \in OtherUsers : kicks[u].st = "ok"
  /\ ~Joined(op.postId, Me)

SlugChange(old, new) == Truthy(old) /\ Truthy(new) /\ old # new
CanonicalAliasOf(room) ==
  IF HasState(stateEvents, room, "m.room.canonical_alias", "")
    THEN AliasOf(GetState(stateEvents, room, "m.room.canonical_alias", "").content)
    ELSE Undefined

C5_Order ==
  (/\ op.name = "editPost"
   /\ calls["getCanonicalAlias"].st = "ok"
   /\ SlugChange(lv.oldAlias, lv.newAlias)) =>
    /\ calls["addRoomAlias"].st # "none"
    /\ calls["sendCanonicalAlias"].st # "none" => calls["addRoomAlias"].st = "ok"
    /\ calls["removeOldAlias"].st # "none" => calls["sendCanonicalAlias"].st = "ok"
    /\ calls["sendCanonicalAlias"].st = "ok" => CanonicalAliasOf(op.postId) = lv.newAlias
    /\ calls["addRoomAlias"].st = "err" =>
         /\ calls["sendCanonicalAlias"].st = "none"
         /\ calls["removeOldAlias"].st = "none"
         /\ CanonicalAliasOf(op.postId) = lv.oldAlias

SomeAliasBound(old, new, room, bound) ==
  <<old, room>> \in bound \/ <<new, room>> \in bound

\* From the read of the old alias on, no step of the slug change takes the room
\* from having one of the two aliases to having neither, and a failed bind
\* leaves the old alias bound.
C5_Step ==
  (/\ op.name = "editPost"
   /\ op' = op
   /\ calls["getCanonicalAlias"].st = "ok"
   /\ SlugChange(lv.oldAlias, lv.newAlias)
   /\ SomeAliasBound(lv.oldAlias, lv.newAlias, op.postId, aliases)) =>
    /\ SomeAliasBound(lv.oldAlias, lv.newAlias, op.postId, aliases')
    /\ (calls'["addRoomAlias"].st = "err" /\ <<lv.oldAlias, op.postId>> \in aliases)
         => <<lv.oldAlias, op.postId>> \in aliases'

\* C5: a slug change from a bound alias old to another alias new binds new, then
\* writes the canonical-alias record, then unbinds old: at every moment one of
\* the two is bound to the room; when the bind of new fails, old stays bound and
\* the canonical-alias record is unchanged.
C5_BindBeforeUnbind == []C5_Order /\ [][C5_Step]_vars

C5_Witness ==
  /\ op.name = "editPost"
  /\ calls["getCanonicalAlias"].st = "ok"
  /\ SlugChange(lv.oldAlias, lv.newAlias)
  /\ calls["removeOldAlias"].st = "ok"
  /\ <<lv.newAlias, op.postId>> \in aliases
  /\ ~AliasBound(lv.oldAlias)

\* C6: the content-pointer record is written once, by addPost: whatever editPost
\* calls have run, it is the first event at its key and names the message
\* addPost sent, not an edit.
C6_PointerImmutable ==
  \A postId \in PostIds :
    HasState(stateEvents, postId, POST_CONTENT_EVENT, "") =>
      LET pointer == GetState(stateEvents, postId, POST_CONTENT_EVENT, "")
      IN  /\ pointer.event_id[4] = 1
          /\ MessageExists(postId, pointer.content.event_id)
          /\ GetMessage(postId, pointer.content.event_id).content.relates_to = NoEvent
          /\ pointer.content.event_id[4] = 1

C6_Witness ==
  /\ op.name = "editPost"
  /\ result = Resolved
  /\ lv.tasks["title"] = "ok"
  /\ lv.tasks["slug"] = "ok"
  /\ lv.tasks["content"] = "ok"
  /\ \E m \in timeline : m.content.relates_to # NoEvent

\* C8: when editPost is given a slug and the read of the canonical-alias record
\* fails with a status other than 404, editPost rejects with that error and
\* issues no addRoomAlias, canonical-alias write or removeRoomAlias.
C8_SlugReadErrorPropagates ==
  (/\ op.name = "editPost"
   /\ RoomExists(op.postId)
   /\ calls["getCanonicalAlias"].st = "err"
   /\ calls["getCanonicalAlias"].err # 404) =>
    /\ lv.tasks["slug"] = "err"
    /\ result.kind = "matrix"
    /\ calls["addRoomAlias"].st = "none"
    /\ calls["sendCanonicalAlias"].st = "none"
    /\ calls["removeOldAlias"].st = "none"

OnlyFailedTask(task) ==
  \A t \in Tasks \ {task} : lv.tasks[t] # "err"

OptionalRead(call, task, value) ==
  /\ calls[call] = Failed(404) =>
       /\ lv.tasks[task] = "ok"
       /\ value = Undefined
       /\ (\A t \in Tasks : lv.tasks[t] = "ok") => result = Resolved
  /\ (calls[call].st = "err" /\ calls[call].err # 404) =>
       /\ lv.tasks[task] = "err"
       /\ result.kind \in {"matrix", "domain"}
       /\ result.from = call => result = MatrixError(calls[call].err, call)
       /\ OnlyFailedTask(task) => result = MatrixError(calls[call].err, call)

\* C7: in getPost a 404 on the read of the summary record or of the
\* canonical-alias record gives an absent summary or slug, and getPost still
\* succeeds when its other reads do; an error with another status on either read
\* makes getPost reject, with that very error when no other read failed.
C7_OptionalReads ==
  op.name = "getPost" =>
    /\ OptionalRead("getTopic", "summary", lv.summary)
    /\ OptionalRead("getAlias", "slug", lv.slug)

C7_Witness ==
  /\ op.name = "getPost"
  /\ calls["getTopic"] = Failed(404)
  /\ calls["getAlias"] = Failed(404)
  /\ result = Resolved
  /\ lv.title # Undefined
  /\ lv.content.text # Undefined

\* C9: getPost rejects when a mandatory record is absent: without a title record
\* the title read fails with 404 and that error is the rejection when no other
\* read failed; without a content-pointer record in the fetched state the
\* rejection is 'Could not find post content event' when no other read failed,
\* and no message event is fetched.
C9_MandatoryRecords ==
  op.name = "getPost" =>
    /\ (calls["getName"].st \in {"ok", "err"}
        /\ ~HasState(stateEvents, op.postId, "m.room.name", "")) =>
         /\ calls["getName"] = Failed(404) \/ calls["getName"].err \in FaultStatuses
         /\ lv.tasks["title"] = "err"
         /\ result.kind \in {"matrix", "domain"}
         /\ OnlyFailedTask("title") =>
              result = MatrixError(calls["getName"].err, "getName")
    /\ (calls["getPostState"].st = "ok"
        /\ ~\E e \in lv.stateEvents : e.type = POST_CONTENT_EVENT) =>
         /\ lv.tasks["content"] = "err"
         /\ calls["getEvent"].st = "none"
         /\ result.kind \in {"matrix", "domain"}
         /\ OnlyFailedTask("content") =>
              result = BlogServiceError("Could not find post content event")

C9_Witness ==
  /\ op.name = "getPost"
  /\ op.postId \in PostIds
  /\ calls["getPostState"].st = "ok"
  /\ ~\E e \in lv.stateEvents : e.type = POST_CONTENT_EVENT
  /\ lv.tasks["title"] = "ok"
  /\ result = BlogServiceError("Could not find post content event")

C9_WitnessNoTitle ==
  /\ op.name = "getPost"
  /\ calls["getName"] = Failed(404)
  /\ result = MatrixError(404, "getName")

\* C11: a post room that holds a content-pointer record written by addPost, and
\* on which no deletePost has run, is linked both ways: the blog holds the
\* child-link record keyed by the post id, the post holds the parent-link record
\* keyed by the blog id with canonical = true, and the message the pointer names
\* is in the post room.
C11_LinkageComplete ==
  \A postId \in PostIds :
    HasState(stateEvents, postId, POST_CONTENT_EVENT, "") =>
      /\ HasState(stateEvents, BlogId, CHILD_EVENT, postId)
      /\ ~GetState(stateEvents, BlogId, CHILD_EVENT, postId).redacted
      /\ HasState(stateEvents, postId, PARENT_EVENT, BlogId)
      /\ ~GetState(stateEvents, postId, PARENT_EVENT, BlogId).redacted
      /\ GetState(stateEvents, postId, PARENT_EVENT, BlogId).content.canonical = TRUE
      /\ MessageExists(postId,
           EventIdOf(GetState(stateEvents, postId, POST_CONTENT_EVENT, "").content))

C11_Witness ==
  /\ op = Idle
  /\ \E postId \in PostIds :
       /\ HasState(stateEvents, postId, POST_CONTENT_EVENT, "")
       /\ HasState(stateEvents, BlogId, CHILD_EVENT, postId)
       /\ HasState(stateEvents, postId, PARENT_EVENT, BlogId)

FieldCalls(field) ==
  CASE field = "title" -> {"setTitle"}
    [] field = "summary" -> {"setSummary"}
    [] field = "slug" -> {"getCanonicalAlias", "addRoomAlias", "sendCanonicalAlias",
                          "removeOldAlias"}
    [] field = "content" -> {"getPointer", "sendEdit"}

FirstCall(field) ==
  CASE field = "title" -> "setTitle"
    [] field = "summary" -> "setSummary"
    [] field = "slug" -> "getCanonicalAlias"
    [] field = "content" -> "getPointer"

FieldPresent(post, field) ==
  CASE field = "title" -> post.title # Undefined
    [] field = "summary" -> post.summary # Undefined
    [] field = "slug" -> post.slug # Undefined
    [] field = "content" -> post.text # Undefined /\ post.html # Undefined

\* What editPost's field updates touch on the homeserver.
FieldRecord(field, room, S, A, T) ==
  CASE field = "title" -> {e \in S : e.room = room /\ e.type = "m.room.name"}
    [] field = "summary" -> {e \in S : e.room = room /\ e.type = "m.room.topic"}
    [] field = "slug" -> <<{e \in S : e.room = room /\ e.type = "m.room.canonical_alias"}, A>>
    [] field = "content" -> {m \in T : m.room = room}

C12_Calls ==
  op.name = "editPost" =>
    \A field \in Tasks :
      /\ ~FieldPresent(op.post, field) =>
           /\ \A c \in FieldCalls(field) : calls[c].st = "none"
           /\ lv.tasks[field] = "none"
      /\ FieldPresent(op.post, field) => calls[FirstCall(field)].st # "none"

C12_Frame ==
  (op.name = "editPost" /\ op' = op) =>
    \A field \in Tasks :
      ~FieldPresent(op.post, field) =>
        FieldRecord(field, op.postId, stateEvents', aliases', timeline')
          = FieldRecord(field, op.postId, stateEvents, aliases, timeline)

\* C12: editPost issues the calls of a field's update exactly for the fields
\* present in its input, the content update only when both text and html are
\* present; for an absent field it issues no call and no step of the method
\* changes that field's record (name, topic, canonical alias and alias
\* bindings, messages).
C12_AbsentFieldsUntouched == []C12_Calls /\ [][C12_Frame]_vars

C12_Witness ==
  /\ op.name = "editPost"
  /\ op.post.title # Undefined
  /\ op.post.text # Undefined
  /\ op.post.html = Undefined
  /\ op.post.slug = Undefined
  /\ calls["setTitle"].st = "ok"
  /\ calls["getPointer"].st = "none"
  /\ result = Resolved

StartsWith(string, start) ==
  Len(string) >= Len(start) /\ SubSeq(string, 1, Len(start)) = start

HasColon(string) == \E i \in 1..Len(string) : string[i] = ":"

NamingDone == op.name = "naming" /\ result = Resolved

\* The statement as claimed, for every name: refuted by the empty name and by
\* the names that hold a colon.
C13_RoundTripEveryName ==
  NamingDone =>
    /\ op.slug # Undefined => lv.slug = op.slug
    /\ ~StartsWith(lv.aliasArg, <<"#">> \o op.roomPrefix) => lv.slug = Undefined

\* C13: for every prefix P and every name N that is not empty and holds no
\* colon, getSlugFromRoomAlias(createRoomAlias(N)) is N; for a name with a
\* colon it is the part before the first colon, and undefined when that part is
\* empty; getSlugFromRoomAlias is undefined for every alias that does not start
\* with '#' followed by P.
C13_RoundTrip ==
  NamingDone =>
    /\ (op.slug # Undefined /\ op.slug # <<>> /\ ~HasColon(op.slug)) => lv.slug = op.slug
    /\ (op.slug # Undefined /\ UpToColon(op.slug) # <<>>) => lv.slug = UpToColon(op.slug)
    /\ (op.slug # Undefined /\ UpToColon(op.slug) = <<>>) => lv.slug = Undefined
    /\ ~StartsWith(lv.aliasArg, <<"#">> \o op.roomPrefix) => lv.slug = Undefined

C13_Witness ==
  /\ NamingDone
  /\ op.roomPrefix = <<"a", ".">>
  /\ op.slug = <<".", "a">>
  /\ lv.slug = op.slug

C13_WitnessNoPrefix ==
  /\ NamingDone
  /\ op.roomPrefix = <<".">>
  /\ lv.aliasArg = <<"#", "a", "a">>
  /\ lv.slug = Undefined

HasCreate(fetched) == \E e \in fetched : e.type = "m.room.create"
HasMarker(fetched) ==
  \E e \in fetched : /\ e.type = "m.room.create"
                     /\ TYPE_KEY \in DOMAIN e.content
                     /\ e.content[TYPE_KEY] = SPACE_VALUE
RecordOf(fetched, type) == {e \in fetched : e.type = type}

\* C14: once the state of the room has arrived, getBlog fails with 'Could not
\* find room creation event' when it holds no creation record, with 'This room
\* is not a space' when the creation record does not carry the space type, and
\* otherwise returns the Blog of that id, its title and description being the
\* name and topic of the records, undefined where the record is absent.
C14_GetBlogValidation ==
  (op.name = "getBlog" /\ calls["getRoomState"].st = "ok") =>
    /\ ~HasCreate(lv.stateEvents) =>
         result = BlogServiceError("Could not find room creation event")
    /\ (HasCreate(lv.stateEvents) /\ ~HasMarker(lv.stateEvents)) =>
         result = BlogServiceError("This room is not a space")
    /\ result = Resolved <=> HasMarker(lv.stateEvents)
    /\ result = Resolved =>
         /\ lv.blog.id = op.id
         /\ RecordOf(lv.stateEvents, "m.room.name") = {} => lv.blog.title = Undefined
         /\ RecordOf(lv.stateEvents, "m.room.topic") = {} => lv.blog.description = Undefined
         /\ \A e \in RecordOf(lv.stateEvents, "m.room.name") :
              lv.blog.title = e.content.name
         /\ \A e \in RecordOf(lv.stateEvents, "m.room.topic") :
              lv.blog.description = e.content.topic

C14_Witness ==
  /\ op.name = "getBlog"
  /\ HasCreate(lv.stateEvents)
  /\ \E e \in lv.stateEvents : e.type = "m.room.create" /\ TypeOf(e.content) = "m.other"
  /\ result = BlogServiceError("This room is not a space")

C14_WitnessNoCreate ==
  /\ op.name = "getBlog"
  /\ lv.stateEvents # {}
  /\ result = BlogServiceError("Could not find room creation event")

C14_WitnessBlog ==
  /\ op.name = "getBlog"
  /\ result = Resolved
  /\ lv.blog.title = Undefined
  /\ lv.blog.description # Undefined

SummaryArrived == op.name \in PostsMethods /\ calls["getSpaceSummary"].st = "ok"

\* C15: getBlogWithPosts, getPosts and getFullPosts fail with 'Could not find
\* blog room' whenever no room of the summary's list has the identifier asked
\* for, whatever rooms it lists; nothing is returned and no content is fetched.
C15_BlogRoomNotFound ==
  (/\ SummaryArrived
   /\ \A i \in 1..Len(lv.spaceSummary) : lv.spaceSummary[i].room_id # op.id) =>
    /\ result = BlogServiceError("Could not find blog room")
    /\ lv.posts = <<>>
    /\ lv.contents = <<>>

C15_Witness ==
  /\ op.name = "getFullPosts"
  /\ calls["getSpaceSummary"].st = "ok"
  /\ Len(lv.spaceSummary) = 2
  /\ result = BlogServiceError("Could not find blog room")

C15_WitnessGetPosts ==
  /\ op.name = "getPosts"
  /\ calls["getSpaceSummary"].st = "ok"
  /\ lv.spaceSummary # <<>>
  /\ result = BlogServiceError("Could not find blog room")

\* The rooms of the summary other than the blog, in the summary's order.
RECURSIVE OtherRooms(_, _)
OtherRooms(rooms, id) ==
  IF rooms = <<>> THEN <<>>
  ELSE IF Head(rooms).room_id = id THEN OtherRooms(Tail(rooms), id)
  ELSE <<Head(rooms)>> \o OtherRooms(Tail(rooms), id)

\* The slug of a canonical alias: what follows '#' and the prefix up to the
\* colon, and undefined for no alias or an alias of another scheme.
ExpectedSlug(alias) ==
  IF alias # Undefined /\ StartsWith(alias, <<"#">> \o roomPrefix)
    THEN UpToColon(SubSeq(alias, Len(roomPrefix) + 2, Len(alias)))
    ELSE Undefined

\* C16: getPosts returns one metadata entry for each room of the summary other
\* than the blog, in the summary's order and never the blog itself; the slug of
\* an entry is the canonical alias stripped of the prefix when the room has one
\* under the prefix, and undefined when it has none or one that does not match.
C16_PostsOfSummary ==
  (SummaryArrived /\ result = Resolved /\ op.name # "getFullPosts") =>
    LET others == OtherRooms(lv.spaceSummary, op.id)
    IN  /\ Len(lv.posts) = Len(others)
        /\ \A i \in 1..Len(lv.posts) :
             /\ lv.posts[i].id = others[i].room_id
             /\ lv.posts[i].id # op.id
             /\ lv.posts[i].title = others[i].name
             /\ lv.posts[i].summary = others[i].topic
             /\ lv.posts[i].slug = ExpectedSlug(others[i].canonical_alias)

\* Apart from the rooms whose canonical alias is the empty string, the posts
\* are those C16 states.
C16_ExceptEmptyAlias ==
  (\A i \in 1..Len(lv.spaceSummary) : lv.spaceSummary[i].canonical_alias # <<>>)
    => C16_PostsOfSummary

PointedMessage(room) ==
  GetMessage(room, GetState(stateEvents, room, POST_CONTENT_EVENT, "").content.event_id)

ReplacingMessages(room, message) ==
  {m \in timeline : m.room = room /\ m.content.relates_to = message.event_id}

\* C17: getPost returns as text and html the body and formatted body of the
\* message the content pointer names; edited_ms is undefined when no message
\* replaces that one and else the timestamp of the latest message replacing it;
\* published_ms is the timestamp of the canonical-alias record when the record
\* names a non-empty alias and undefined otherwise.
C17_PostContent ==
  (op.name = "getPost" /\ lv.tasks["content"] = "ok") =>
    LET message == PointedMessage(op.postId)
        edits == ReplacingMessages(op.postId, message)
    IN  /\ lv.content.text = message.content.body
        /\ lv.content.html = message.content.formatted_body
        /\ edits = {} => lv.content.edited_ms = NoTime
        /\ edits # {} =>
             \E m \in edits :
               /\ lv.content.edited_ms = m.origin_server_ts
               /\ \A n \in edits : n.event_id[4] <= m.event_id[4]
        /\ Truthy(CanonicalAliasOf(op.postId)) =>
             lv.content.published_ms =
               GetState(stateEvents, op.postId, "m.room.canonical_alias", "").origin_server_ts
        /\ ~Truthy(CanonicalAliasOf(op.postId)) => lv.content.published_ms = NoTime

C17_Witness ==
  /\ op.name = "getPost"
  /\ result = Resolved
  /\ lv.content.text = <<"a">>
  /\ lv.content.edited_ms # NoTime
  /\ lv.content.published_ms # NoTime

C17_WitnessPlain ==
  /\ op.name = "getPost"
  /\ result = Resolved
  /\ lv.content.edited_ms = NoTime
  /\ lv.content.published_ms = NoTime

EditMessages == {m \in timeline : m.content.relates_to # NoEvent}

LatestMessage(room) ==
  CHOOSE m \in timeline :
    m.room = room /\ \A n \in timeline : n.room = room => n.event_id[4] <= m.event_id[4]

C18_Targets ==
  /\ \A m \in EditMessages :
       /\ HasState(stateEvents, m.room, POST_CONTENT_EVENT, "")
       /\ m.content.relates_to =
            GetState(stateEvents, m.room, POST_CONTENT_EVENT, "").content.event_id
       /\ MessageExists(m.room, m.content.relates_to)
       /\ GetMessage(m.room, m.content.relates_to) \notin EditMessages
       /\ m.content.new_body # Undefined
       /\ m.content.new_formatted_body # Undefined
       /\ m.content.body = <<"(edited) ">> \o m.content.new_body
  /\ (op.name = "editPost" /\ calls["sendEdit"].st = "ok") =>
       /\ LatestMessage(op.postId) \in EditMessages
       /\ LatestMessage(op.postId).content.body = <<"(edited) ">> \o op.post.text
       /\ LatestMessage(op.postId).content.new_body = op.post.text
       /\ LatestMessage(op.postId).content.new_formatted_body = op.post.html
  /\ (op.name = "editPost" /\ calls["getPointer"].st = "err") =>
       calls["sendEdit"].st = "none"

C18_NoSendWithoutPointer ==
  (op.name = "editPost" /\ op' = op /\ calls["getPointer"].st # "ok") =>
    timeline' = timeline

\* C18: every message an editPost with text and html sends replaces the message
\* the content pointer names, which is the message of addPost and never an
\* edit; its body is '(edited) ' followed by the new text and its new content
\* is the plain text and html; a message is sent only once the pointer has been
\* read, none when that read fails.
C18_EditsTargetOriginal == []C18_Targets /\ [][C18_NoSendWithoutPointer]_vars

C18_Witness ==
  /\ op.name = "editPost"
  /\ calls["sendEdit"].st = "ok"
  /\ Cardinality(EditMessages) = 2
  /\ \A m \in EditMessages : m.content.relates_to[4] = 1

C18_WitnessReadFails ==
  /\ op.name = "editPost"
  /\ calls["getPointer"].st = "err"
  /\ result.kind = "matrix"

BlogStateArrived == op.name = "deletePost" /\ calls["getBlogState"].st = "ok"

OthersSucceeded ==
  /\ calls["redactParent"].st = "ok"
  /\ calls["removeRoomAlias"].st \in {"none", "ok"}
  /\ \A u \in Users : kicks[u].st \in {"none", "ok"}

C19_ChildLink ==
  /\ (BlogStateArrived /\ ~HasState(stateEvents, lv.blogId, CHILD_EVENT, op.postId)) =>
       /\ calls["redactChild"].st = "none"
       /\ OthersSucceeded => calls["leaveRoom"].st # "none"
       /\ calls["leaveRoom"].st = "ok" => result = Resolved
  /\ (BlogStateArrived /\ HasState(stateEvents, lv.blogId, CHILD_EVENT, op.postId)) =>
       /\ calls["redactChild"].st # "none"
       /\ lv.childEvent =
            GetState(stateEvents, lv.blogId, CHILD_EVENT, op.postId).event_id
       /\ \E e \in lv.stateEvents : e.type = PARENT_EVENT /\ e.state_key = lv.blogId
       /\ calls["redactChild"].st = "ok" =>
            GetState(stateEvents, lv.blogId, CHILD_EVENT, op.postId).redacted
       /\ calls["leaveRoom"].st # "none" => calls["redactChild"].st = "ok"

\* What a step of deletePost changes in the blog room: nothing, or the child
\* record of the post, which becomes redacted.
C19_OnlyThatRecord ==
  (op.name = "deletePost" /\ op' = op) =>
    \A e \in StateOf(stateEvents, BlogId) :
      \/ e \in stateEvents'
      \/ /\ e.type = CHILD_EVENT
         /\ e.state_key = op.postId
         /\ calls["redactChild"].st = "pending"
         /\ \E r \in StateOf(stateEvents', BlogId) :
              r.event_id = e.event_id /\ r.redacted

\* C19: when the blog's state holds no child-link record for the post,
\* deletePost redacts nothing on the blog and goes on: once the other parallel
\* calls have succeeded it issues leaveRoom, and succeeds when that does.  When
\* the record is there, its event, and nothing else of the blog named by the
\* parent record, is redacted.
C19_ChildLinkOptional == []C19_ChildLink /\ [][C19_OnlyThatRecord]_vars

C19_Witness ==
  /\ BlogStateArrived
  /\ ~HasState(stateEvents, lv.blogId, CHILD_EVENT, op.postId)
  /\ calls["redactChild"].st = "none"
  /\ calls["leaveRoom"].st = "ok"
  /\ result = Resolved

C19_WitnessRedacted ==
  /\ BlogStateArrived
  /\ calls["redactChild"].st = "ok"
  /\ GetState(stateEvents, lv.blogId, CHILD_EVENT, op.postId).redacted
  /\ result = Resolved

MembersIn(fetched) == {e.state_key : e \in {m \in fetched : m.type = "m.room.member"}}

C20_Kicks ==
  op.name = "deletePost" =>
    /\ kicks[Me].st = "none"
    /\ calls["getCurrentUser"].st # "ok" => \A u \in Users : kicks[u].st = "none"
    /\ calls["getCurrentUser"].st = "ok" =>
         /\ \A u \in Users :
              kicks[u].st # "none" <=> (u \in MembersIn(lv.stateEvents) /\ u # Me)
         /\ lv.kickArgs =
              {[roomId |-> op.postId, userId |-> u, reason |-> op.reason] :
                 u \in MembersIn(lv.stateEvents) \ {Me}}

\* A kickUser call that has been issued is not issued again.
C20_Once ==
  (op.name = "deletePost" /\ op' = op) =>
    \A u \in Users :
      /\ kicks[u].st \in {"ok", "err"} => kicks'[u] = kicks[u]
      /\ kicks[u].st = "pending" => kicks'[u].st # "none"
      /\ (kicks[u].st = "none" /\ kicks'[u].st # "none") =>
           calls["getCurrentUser"].st = "pending"

\* C20: deletePost issues kickUser once for each membership record of the
\* post's fetched state whose state key is not the acting agent, for the post
\* room and with the reason given, and never for the acting agent.
C20_KickOthersOnce == []C20_Kicks /\ [][C20_Once]_vars

C20_Witness ==
  /\ op.name = "deletePost"
  /\ op.reason = "spam"
  /\ Me \in MembersIn(lv.stateEvents)
  /\ \E u \in OtherUsers : kicks[u].st = "ok" /\ ~Joined(op.postId, u)
  /\ kicks[Me].st = "none"

\* The four updates of editPost run alone, each to its end, on a homeserver
\* state R = <<state records, alias bindings, messages>> that answers every
\* call.
AloneTitle(R, room, title) ==
  <<PutState(R[1], room, "m.room.name", "", [name |-> title]), R[2], R[3]>>

AloneSummary(R, room, summary) ==
  <<PutState(R[1], room, "m.room.topic", "", [topic |-> summary]), R[2], R[3]>>

AloneSlug(R, room, slug) ==
  LET newAlias == setPostSlug_newAlias(slug)
      oldAlias == IF HasState(R[1], room, "m.room.canonical_alias", "")
                    THEN AliasOf(GetState(R[1], room, "m.room.canonical_alias", "").content)
                    ELSE Undefined
      bound == IF Truthy(newAlias)
                 THEN <<PutState(R[1], room, "m.room.canonical_alias", "",
                                 [alias |-> newAlias]),
                        R[2] \cup {<<newAlias, room>>}, R[3]>>
                 ELSE R
  IN  IF oldAlias = newAlias THEN R
      ELSE IF Truthy(oldAlias)
        THEN <<bound[1], {a \in bound[2] : a[1] # oldAlias}, bound[3]>>
      ELSE bound

AloneContent(R, room, text, html) ==
  <<R[1], R[2],
    R[3] \cup {MessageEvent(room, NewMessageId(R[3], room),
                            EditMessage(text, html,
                              EventIdOf(GetState(R[1], room, POST_CONTENT_EVENT, "").content)))}>>

OneAfterTheOther(R, room, post) ==
  LET r1 == IF FieldPresent(post, "title") THEN AloneTitle(R, room, post.title) ELSE R
      r2 == IF FieldPresent(post, "summary") THEN AloneSummary(r1, room, post.summary)
            ELSE r1
      r3 == IF FieldPresent(post, "slug") THEN AloneSlug(r2, room, post.slug) ELSE r2
  IN  IF FieldPresent(post, "content")
        THEN AloneContent(r3, room, post.text, post.html) ELSE r3

AllSucceeded ==
  /\ op.name = "editPost"
  /\ result = Resolved
  /\ faults = 0

C21_SameAsSequential ==
  AllSucceeded => remote = OneAfterTheOther(lv.before, op.postId, op.post)

\* A step of editPost changes the records of a field only by completing a call
\* of that field's update, and changes no other record.
C21_Disjoint ==
  (op.name = "editPost" /\ op' = op) =>
    /\ \A field \in Tasks :
         FieldRecord(field, op.postId, stateEvents', aliases', timeline')
             # FieldRecord(field, op.postId, stateEvents, aliases, timeline)
           => /\ \E c \in FieldCalls(field) : calls'[c] # calls[c]
              /\ \A other \in Tasks \ {field} :
                   /\ \A c \in FieldCalls(other) : calls'[c] = calls[c]
                   /\ FieldRecord(other, op.postId, stateEvents', aliases', timeline')
                        = FieldRecord(other, op.postId, stateEvents, aliases, timeline)
    /\ {e \in stateEvents' : ~(e.room = op.postId /\ e.type \in
           {"m.room.name", "m.room.topic", "m.room.canonical_alias"})}
         = {e \in stateEvents : ~(e.room = op.postId /\ e.type \in
           {"m.room.name", "m.room.topic", "m.room.canonical_alias"})}
    /\ {m \in timeline' : m.room # op.postId} = {m \in timeline : m.room # op.postId}

\* C21: the title, summary, slug and content updates of one editPost write
\* pairwise disjoint records, and whenever the method succeeds with every call
\* answered, in whatever order the calls were answered, the homeserver's state
\* records, alias bindings and messages are those left by running the four
\* updates one after the other on the state the method started from.
C21_InterleavingsAgree == []C21_SameAsSequential /\ [][C21_Disjoint]_vars

C21_Witness ==
  /\ AllSucceeded
  /\ Cardinality({field \in Tasks : lv.tasks[field] = "ok"}) >= 3
  /\ calls["sendCanonicalAlias"].st = "ok"
  /\ remote # lv.before

\* A slug is replaced by another while a second field is updated.
C21_WitnessSlugChange ==
  /\ AllSucceeded
  /\ Cardinality({field \in Tasks : lv.tasks[field] = "ok"}) >= 2
  /\ lv.tasks["slug"] = "ok"
  /\ Truthy(lv.oldAlias)
  /\ Truthy(lv.newAlias)
  /\ lv.oldAlias # lv.newAlias

\* The content update ran to its end between two calls of the slug update,
\* while the title update was still in flight.
C21_WitnessInterleaved ==
  /\ op.name = "editPost"
  /\ calls["addRoomAlias"].st = "ok"
  /\ calls["sendCanonicalAlias"].st = "pending"
  /\ calls["sendEdit"].st = "ok"
  /\ calls["setTitle"].st = "pending"
  /\ faults = 0

CanonicalAliasIn_before ==
  IF HasState(lv.before[1], op.postId, "m.room.canonical_alias", "")
    THEN AliasOf(GetState(lv.before[1], op.postId, "m.room.canonical_alias", "").content)
    ELSE Undefined

SlugUnchanged ==
  /\ op.name = "editPost"
  /\ FieldPresent(op.post, "slug")
  /\ CanonicalAliasIn_before = setPostSlug_newAlias(op.post.slug)

SlugNoOp ==
  /\ calls["addRoomAlias"].st = "none"
  /\ calls["sendCanonicalAlias"].st = "none"
  /\ calls["removeOldAlias"].st = "none"
  /\ aliases = lv.before[2]
  /\ FieldRecord("slug", op.postId, stateEvents, aliases, timeline)
       = FieldRecord("slug", op.postId, lv.before[1], lv.before[2], lv.before[3])

\* C22: when the alias named by the post's canonical-alias record equals the
\* alias computed from the requested slug, the slug update of editPost issues no
\* addRoomAlias, no canonical-alias write and no removeRoomAlias, and leaves the
\* alias bindings and the canonical-alias record as they were.
C22_UnchangedSlugNoOp == SlugUnchanged => SlugNoOp

\* The same, in the runs where the read of the canonical-alias record is
\* answered.
C22_WhenReadAnswered ==
  (SlugUnchanged /\ calls["getCanonicalAlias"].st # "err") => SlugNoOp

C22_WitnessReadAnswered ==
  /\ SlugUnchanged
  /\ calls["getCanonicalAlias"].st = "ok"
  /\ lv.tasks["slug"] = "ok"
  /\ result = Resolved

BoundTo(alias, room) == <<alias, room>> \in aliases

UnsetSucceeded ==
  /\ op.name = "editPost"
  /\ op.post.slug = <<>>
  /\ calls["getCanonicalAlias"].st = "ok"
  /\ Truthy(lv.oldAlias)
  /\ calls["removeOldAlias"].st = "ok"
  /\ result = Resolved

\* C24: once editPost with slug "" has succeeded on a post that had an alias,
\* the post's canonical-alias record no longer names the alias that was
\* unbound; and a getPost that succeeds returns a slug and a published_ms only
\* when the alias named by the canonical-alias record is bound to the post.
C24_SlugNamesBoundAlias ==
  /\ UnsetSucceeded => CanonicalAliasOf(op.postId) # lv.oldAlias
  /\ (op.name = "getPost" /\ result = Resolved) =>
       /\ lv.slug # Undefined => BoundTo(CanonicalAliasOf(op.postId), op.postId)
       /\ lv.content.published_ms # NoTime =>
            BoundTo(CanonicalAliasOf(op.postId), op.postId)

\* What the code does instead: the record keeps naming the unbound alias ...
C24_RecordKept ==
  UnsetSucceeded =>
    /\ CanonicalAliasOf(op.postId) = lv.oldAlias
    /\ ~AliasBound(lv.oldAlias)
    /\ calls["sendCanonicalAlias"].st = "none"

\* ... and a following getPost returns the slug of that alias and the time of
\* the record.
C24_StaleSlugRead ==
  /\ op.name = "getPost"
  /\ result = Resolved
  /\ lv.slug = <<"x">>
  /\ lv.content.published_ms # NoTime
  /\ aliases = {}

AliasesOf(room) == {a[1] : a \in {b \in aliases : b[2] = room}}

TwoSlugChangesFinished ==
  /\ op.name = "editPostTwice"
  /\ Truthy(op.slugs[1])
  /\ Truthy(op.slugs[2])
  /\ op.slugs[1] # op.slugs[2]
  /\ \A k \in 1..2 : lv.edits[k].awaits = "returned"
  /\ faults = 0

\* C23: once two concurrent editPost calls that set two different non-empty
\* slugs on the same post have both finished, every call of theirs answered,
\* exactly one alias is bound to the post's room, and it is the alias the
\* canonical-alias record names.
C23_OneCanonicalAlias ==
  TwoSlugChangesFinished => AliasesOf(op.postId) = {CanonicalAliasOf(op.postId)}

\* Both calls succeed on a post that had no alias and leave two aliases bound,
\* one of which the canonical-alias record does not name.
C23_TwoAliasesLeft ==
  /\ TwoSlugChangesFinished
  /\ lv.before[2] = {}
  /\ Cardinality(AliasesOf(op.postId)) = 2
  /\ CanonicalAliasOf(op.postId) \in AliasesOf(op.postId)

\* When the second call reads the record only after the first has finished,
\* one alias is left and the record names it.
C23_OneAfterTheOther ==
  /\ TwoSlugChangesFinished
  /\ AliasesOf(op.postId) = {CanonicalAliasOf(op.postId)}
  /\ Truthy(lv.edits[2].oldAlias)
  /\ lv.edits[2].oldAlias = lv.edits[1].newAlias

\* ======================================================== specifications
AddPostSteps ==
  \/ \E post \in NewPosts : addPost(BlogId, post)
  \/ addPost_createRoom_ok
  \/ addPost_createRoom_fail
  \/ addPost_message_ok
  \/ addPost_child_ok
  \/ addPost_parent_ok
  \/ addPost_joined_fail
  \/ addPost_pointer_ok
  \/ addPost_pointer_fail

DeletePostSteps ==
  \/ \E postId \in PostIds, reason \in Reasons : deletePost(postId, reason)
  \/ deletePost_state_ok
  \/ deletePost_user_ok
  \/ deletePost_first_fail
  \/ deletePost_redactParent_ok
  \/ deletePost_blogState_ok
  \/ deletePost_redactChild_ok
  \/ deletePost_removeRoomAlias_ok
  \/ \E user \in OtherUsers : deletePost_kickUser_ok(user)
  \/ deletePost_joined_fail
  \/ deletePost_leaveRoom_ok
  \/ deletePost_leaveRoom_fail

EditPostSteps ==
  \/ \E postId \in PostIds, post \in PartialPosts : editPost(postId, post)
  \/ setPostTitle_ok
  \/ setPostSummary_ok
  \/ editPost_write_fail
  \/ setPostSlug_read_ok
  \/ setPostSlug_read_fail
  \/ setPostSlug_addRoomAlias_ok
  \/ setPostSlug_sendCanonicalAlias_ok
  \/ setPostSlug_removeRoomAlias_ok
  \/ setPostSlug_call_fail
  \/ setPostContent_read_ok
  \/ setPostContent_send_ok
  \/ setPostContent_fail

Environment == \E user \in OtherUsers, room \in PostIds : UserJoins(user, room)

\* The service adds and deletes posts while users join the post rooms.
Next == AddPostSteps \/ DeletePostSteps \/ Environment \/ Return

Spec == Init /\ [][Next]_vars

GetPostSteps ==
  \/ \E roomId \in PostIds \cup {BlogId} : getPost(roomId)
  \/ getPostTitle_ok
  \/ getPostTitle_fail
  \/ getPostSummary_ok
  \/ getPostSummary_fail
  \/ getPostSlug_ok
  \/ getPostSlug_fail
  \/ getPostContent_state_ok
  \/ getPostContent_event_ok
  \/ getPostContent_fail

\* The service adds posts and reads them.
NextGet == AddPostSteps \/ GetPostSteps \/ Return

SpecGet == Init /\ [][NextGet]_vars

\* addPost with every call answered.
AddPostAnswered ==
  \/ \E post \in NewPosts : addPost(BlogId, post)
  \/ addPost_createRoom_ok
  \/ addPost_message_ok
  \/ addPost_child_ok
  \/ addPost_parent_ok
  \/ addPost_pointer_ok

\* The service adds posts and edits them; the faults are those of the edits.
NextEdit == AddPostAnswered \/ EditPostSteps \/ Return

SpecEdit == Init /\ [][NextEdit]_vars

NamingSteps ==
  \/ \E slug \in Names : naming_createRoomAlias(slug)
  \/ \E alias \in Aliases : naming_givenAlias(alias)
  \/ naming_getSlugFromRoomAlias

\* The naming helpers applied to every prefix, name and alias of the bounds.
SpecNaming == InitNaming /\ [][NamingSteps]_vars

GetBlogSteps ==
  \/ \E id \in {BlogId} \cup PostIds : getBlog(id)
  \/ getBlog_state_ok
  \/ getBlog_state_fail

\* The service is asked for the blog of rooms of every kind.
SpecBlog == InitBlog /\ [][GetBlogSteps \/ Return]_vars

GetPostsSteps ==
  \/ \E method \in PostsMethods : getBlogWithPosts(method, BlogId)
  \/ getBlogWithPosts_summary_ok
  \/ getBlogWithPosts_summary_fail
  \/ \E i \in 1..MaxRooms : getFullPosts_state_ok(i)
  \/ \E i \in 1..MaxRooms : getFullPosts_event_ok(i)
  \/ \E i \in 1..MaxRooms : getFullPosts_content_fail(i)

\* The service lists the posts of the blog from space summaries of every shape.
SpecPosts == InitPosts /\ [][GetPostsSteps \/ Return]_vars

\* The edits of the slug and of the content.
SlugContentPosts ==
  {post \in PartialPosts : /\ post.title = Undefined
                           /\ post.summary = Undefined
                           /\ post.text = Undefined <=> post.html = Undefined}

EditSlugContentSteps ==
  \/ \E postId \in PostIds, post \in SlugContentPosts : editPost(postId, post)
  \/ setPostSlug_read_ok
  \/ setPostSlug_read_fail
  \/ setPostSlug_addRoomAlias_ok
  \/ setPostSlug_sendCanonicalAlias_ok
  \/ setPostSlug_removeRoomAlias_ok
  \/ setPostSlug_call_fail
  \/ setPostContent_read_ok
  \/ setPostContent_send_ok
  \/ setPostContent_fail

\* The service adds posts, edits their slug and content, and reads them.
NextRead == AddPostAnswered \/ EditSlugContentSteps \/ GetPostSteps \/ Return

SpecRead == Init /\ [][NextRead]_vars

\* The slugs of the two concurrent edits.
TwiceSlugs == EditSlugs \ {Undefined}

EditPostTwiceSteps ==
  \/ \E postId \in PostIds, slug1 \in TwiceSlugs, slug2 \in TwiceSlugs :
       editPostTwice(postId, slug1, slug2)
  \/ \E k \in 1..2 : editPostTwice_read_ok(k)
  \/ \E k \in 1..2 : editPostTwice_read_fail(k)
  \/ \E k \in 1..2 : editPostTwice_addRoomAlias_ok(k)
  \/ \E k \in 1..2 : editPostTwice_sendCanonicalAlias_ok(k)
  \/ \E k \in 1..2 : editPostTwice_removeRoomAlias_ok(k)
  \/ \E k \in 1..2 : editPostTwice_call_fail(k)

\* The service adds posts and changes the slug of a post twice at once.
NextTwice == AddPostAnswered \/ EditPostTwiceSteps \/ Return

SpecTwice == Init /\ [][NextTwice]_vars

====
